---- MODULE Spec2Model ----
(***************************************************************************)
(* Haunted-house show controller (HauntedHouse2025): the supervisor, the    *)
(* shutdown detector, the operator surfaces (GUI / HTTP), StartHouse, the   *)
(* per-door tasks and the room tasks, as threads that share House State.    *)
(* Threads interleave at the points where the Python code sleeps, blocks or *)
(* does I/O; every t.sleep is a scheduling point without a duration.        *)
(***************************************************************************)
EXTENDS Integers, Sequences, FiniteSets, TLC

(* ------------------------------ bounds --------------------------------- *)
MaxCycles == 2        \* the ghost count of ONLINE cycles saturates here
MaxDemos == 2         \* demo requests the operator makes
MaxSessions == 2      \* playbacks requested from the audio manager
SrcBlocks == 2        \* length of a clip, in blocks of the output stream
MaxStopPolls == 2     \* passes of stop_all_audio's wait loop before its deadline
MaxChannels == 4      \* output channels of the largest device
MaxSample == 2        \* largest magnitude of a source sample
MaxGain == 2          \* largest gain of a channel
MaxTime == 3          \* clock ticks the sensor monitor is followed for
MaxBtnLines == 257    \* button lines the reader handles in a run
FewBtnLines == 1      \* button lines in the runs that are not about the queue filling
MaxSegs == 2          \* ramp segments in the duration of a flicker
MaxExtra == 1         \* run() threads of a room started while one is alive
MaxFails == 12        \* failures of the serial link that are followed

(* ----------------------------- constants ------------------------------- *)
\* remote_sensor_monitor.py: the reconnect delays, in units of 250 ms
BACKOFF_START_S == 1
BACKOFF_MAX_S == 12
Doors == {1, 2}
DOOR_SOLENOID_PINS == [d \in Doors |-> IF d = 1 THEN 47 ELSE 38]
HouseLightsPin == 22
FlashCount == 3
CLOPEN_HOLD_TICKS == 12
Rooms == {"graveyard", "gangway", "treasureRoom", "quarterdeck", "cargoHold"}
SHThreads == {"gui", "http"}
Modes == {"OFFLINE", "ONLINE", "SoftShutdown", "EmergencyShutoff", "REBOOT"}
ConsoleLines == {"SAFE", "safe", "go"}

\* the relay pins shutdown() drives, in the order of the source
ShutdownPins ==
    {47, 33, 35} \cup {3, 2, 26, 24} \cup {9, 23, 53, 38, 4}
    \cup {45, 58, 31, 40, 6, 7}
    \cup {49, 30, 51, 28, 39, 25, 61, 41, 27, 60}
    \cup {37, 36, 34, 5} \cup {43, 29, 59, 32, 8}
\* the relays toggleHouseLights drives active-low together with pin 22
HouseLightRelays == {23, 26, 6, 7}
Pins == ShutdownPins \cup {HouseLightsPin}
Unwritten == 0 - 1
\* a playback that was given no epoch (_play_epoch starts at 0, the first epoch is 1)
NoEpoch == 0

VARIABLES
    systemState, Boot, HouseActive, Demo, houseLights,   \* House State
    DoorState, TargetDoorState,                          \* House State, doors
    pins,            \* last value written to each M1 digital pin
    dimPct,          \* last brightness handed to dim.dim
    supPc,           \* position of initialize_system (main thread)
    surfacesUp,      \* the GUI and HTTP threads are running
    detPc, detBranch, detFlash,   \* the shutdownDetector thread
    shPc,            \* StartHouse threads, one per operator surface
    roomPc,          \* position of the run() thread of each room ("idle": none)
    sawBreak,        \* a BreakCheck() call of the room's thread has returned True
    roomAudio,       \* the clip each room's thread last handed to play_audio
    demoCount,       \* demo requests made so far
    doorPc,          \* position of the door_process thread of each door
    doorHold,        \* loop index i of the CLOPEN hold of each door
    \* history variables
    persistInits,    \* times the persistent services were initialised
    doorSpawns,      \* times spawn_doors ran
    cycles,          \* times the supervisor set ONLINE (saturating)
    audioStopped, shutdownRan,    \* what the detector has done this cycle
    emergencyReq,    \* EmergencyShutoff was requested since ONLINE was last set
    safeRead,        \* the console read SAFE since ONLINE was last set
    sdJustDone,      \* the last step taken was the final step of shutdown()
    \* control/audio_manager.py
    playEpoch,       \* _play_epoch
    cutoffEpoch,     \* _cutoff_epoch
    stopEvent,       \* _stop_event is set
    activeSessions,  \* _active_sessions: sessions registered by their worker
    ses,             \* the playback requests made so far, one record each
    created,         \* history: the playbacks in the order they were created
    stopPc,          \* position of the thread inside stop_all_audio
    stopPolls,       \* passes of the wait loop of stop_all_audio so far
    route,           \* one play_to_named_channel / play_to_all_channels request
    \* control/remote_sensor_monitor.py
    now,             \* time.monotonic(), in clock ticks
    shared,          \* _shared: the latest record of each sensor id
    farMm,           \* FAR_DISTANCE_MM
    hist,            \* _hist: sample history and latch of each sensor id
    gv,              \* the last get_value call: its arguments and its result
    obs,             \* the last obstructed call: its arguments and its result
    \* the threads inside _hist_update
    hu,              \* per calling thread: position, clock read, sample taken, window
    \* the button queue and the other calls of the sensor API
    btnq,            \* _btnq: the button edges put and not yet popped
    btnLines,        \* button lines the reader has handled so far
    bp,              \* the last button_pop call and its result
    api,             \* the last get / get_distance_filtered / get_button_value call
    \* the reader's position in its input
    lastLine,        \* the line the reader handled last
    lastAt,          \* the host time at which it handled it
    \* the hardware links opened at boot
    M1_available,    \* control/arduino.py: board M1 was opened
    M2_available,    \* control/arduino.py: board M2 was opened
    serOpen,         \* control/dimmer_controller.py: _ser is not None
    \* the room state tags
    roomState,       \* house.gangway_state, house.cargoHold_state: the tag a room task keeps
    \* room threads and helper threads ended by an uncaught exception
    roomFailed,      \* the rooms whose run() thread ended by an exception
    helperPc,        \* treasureRoom's dimmer4_fire thread: none, run, raised
    \* control/dimmer_controller.py: the flicker effect
    flicker_stop_evt,\* _flicker_stop_evt: the registered flicker's local_stop (its worker), 0 for None
    fl,              \* per flicker worker: position, its local_stop event, segments left, levels
    \* room threads beside the one roomPc follows
    extraTasks,      \* per room: further live run() threads of that room
    \* _monitor_main's reconnect loop
    monPc,           \* open | connected | except
    backoff,         \* the local backoff, in units of 250 ms
    slept,           \* ghost: the delay of the last time.sleep(backoff), 0 before the first
    consecFails,     \* ghost: failures since the last successful _open_serial
    totalFails       \* ghost: failures since the process started

vars == <<systemState, Boot, HouseActive, Demo, houseLights, DoorState,
          TargetDoorState, pins, dimPct, supPc, surfacesUp, detPc, detBranch,
          detFlash, shPc, roomPc, sawBreak, roomAudio, demoCount, doorPc, doorHold, persistInits,
          doorSpawns,
          cycles, audioStopped, shutdownRan, emergencyReq, safeRead, sdJustDone,
          playEpoch, cutoffEpoch, stopEvent, activeSessions, ses, created,
          stopPc, stopPolls, route,
          now, shared, farMm, hist, gv, obs,
          hu,
          btnq, btnLines, bp, api,
          lastLine, lastAt,
          M1_available, M2_available, serOpen,
          roomState,
          roomFailed, helperPc,
          flicker_stop_evt, fl,
          extraTasks,
          monPc, backoff, slept, consecFails, totalFails>>

houseVars == <<systemState, Boot, HouseActive, Demo, houseLights>>
doorVars == <<DoorState, TargetDoorState, doorPc, doorHold>>
detVars == <<detPc, detBranch, detFlash>>
roomVars == <<roomPc, sawBreak, roomAudio, demoCount>>
audioVars == <<playEpoch, cutoffEpoch, stopEvent, activeSessions, ses, created,
               stopPc, stopPolls>>
\* the state of the libraries the show calls into
routeVars == <<route>>
sensorVars == <<now, shared, farMm, hist, gv, obs>>
histCallVars == <<hu>>
readerVars == <<btnq, btnLines, bp, api>>
lineVars == <<lastLine, lastAt>>
hwVars == <<M1_available, M2_available, serOpen>>
tagVars == <<roomState>>
failVars == <<roomFailed, helperPc>>
flickerVars == <<flicker_stop_evt, fl>>
instVars == <<extraTasks>>
backoffVars == <<monPc, backoff, slept, consecFails, totalFails>>
moreVars == <<histCallVars, readerVars, lineVars, hwVars, tagVars, failVars, flickerVars, instVars, backoffVars>>
libVars == <<audioVars, routeVars, sensorVars, moreVars>>
libVarsButHw == <<audioVars, routeVars, sensorVars, histCallVars, readerVars, lineVars, tagVars, failVars, flickerVars, instVars, backoffVars>>
libVarsButTags == <<audioVars, routeVars, sensorVars, histCallVars, readerVars, lineVars, hwVars, failVars, flickerVars, instVars, backoffVars>>
libVarsButHist == <<audioVars, routeVars, readerVars, lineVars, hwVars, tagVars, failVars, flickerVars, instVars, backoffVars>>
libVarsButReader == <<audioVars, routeVars, histCallVars, lineVars, hwVars, tagVars, failVars, flickerVars, instVars, backoffVars>>
libVarsButFail == <<audioVars, routeVars, sensorVars, histCallVars, readerVars, lineVars, hwVars, flickerVars, instVars, backoffVars>>
libVarsButInst == <<audioVars, routeVars, sensorVars, histCallVars, readerVars, lineVars, hwVars, tagVars, failVars, flickerVars, backoffVars>>
libVarsButBackoff == <<audioVars, routeVars, sensorVars, histCallVars, readerVars, lineVars, hwVars, tagVars, failVars, flickerVars, instVars>>
libVarsButLines == <<audioVars, routeVars, histCallVars, hwVars, tagVars, failVars, flickerVars, instVars, backoffVars>>
histVars == <<persistInits, doorSpawns, cycles, audioStopped, shutdownRan,
              emergencyReq, safeRead>>

(* ----------------------------- helpers --------------------------------- *)
Min(a, b) == IF a < b THEN a ELSE b
Max(a, b) == IF a > b THEN a ELSE b

\* str.upper() on the console lines of the model
Upper(line) == IF line = "safe" THEN "SAFE" ELSE line

\* utils/tools.py BreakCheck
BreakCheck == ~HouseActive \/ systemState # "ONLINE"

\* control/houseLights.py toggleHouseLights(enable): the pin image after it
HouseLightsPins(p, enable) ==
    [q \in Pins |->
        IF q = HouseLightsPin THEN (IF enable THEN 1 ELSE 0)
        ELSE IF q \in HouseLightRelays THEN (IF enable THEN 0 ELSE 1)
        ELSE p[q]]

toggleHouseLights(enable) ==
    /\ houseLights' = enable
    /\ pins' = HouseLightsPins(pins, enable)
    /\ dimPct' = IF enable THEN 100 ELSE 0

\* control/shutdown.py shutdown(), up to its t.sleep(1): every relay to 1
ShutdownRelays(p) == [q \in Pins |-> IF q \in ShutdownPins THEN 1 ELSE p[q]]

(* ------------------------- playback sessions --------------------------- *)
Sessions == 1..MaxSessions

\* the slot of a playback that has not been requested yet
NoSession ==
    [pc |-> "none", kind |-> "file", threaded |-> TRUE, looping |-> FALSE,
     honor_shutdown |-> TRUE, honor_breakcheck |-> TRUE, epoch |-> NoEpoch,
     pos |-> 0, why |-> "none", raised |-> FALSE, stopAsked |-> FALSE]

(* --------------------------- channel routing --------------------------- *)
\* no routing request made yet
NoRoute ==
    [pc |-> "idle", have_channels |-> 1, mode |-> "one", idx |-> 0,
     sample |-> 0, gain |-> 1, out |-> <<>>]

(* ----------------------------- sensor records ------------------------- *)
\* the distance sensor the gangway polls and the button the cargo hold reads
TofIds == {"TOF1"}
SensorIds == TofIds \cup {"BTN1"}

\* what a record's vals may hold under a key: a number (kept in tenths, so
\* that fractions have a value), something float() cannot parse, or nothing
Num(t) == [tag |-> "num", tenths |-> t]
Bad == [tag |-> "bad", tenths |-> 0]
Absent == [tag |-> "absent", tenths |-> 0]
\* the `default` argument of get_value
Default == [tag |-> "default", tenths |-> 0]

\* _shared.get(sensor_id) is None
NoRec == [t_host_ms |-> 0 - 1, seq |-> 0, dist_mm |-> Absent, angle |-> Absent,
          btn |-> Absent, pressed |-> Absent]

\* FAR_DISTANCE_MM = 10000
FAR_DISTANCE_MM == 10000

\* _hist.setdefault(sid, {'q': deque(maxlen=256), 'last': False, 'last_ts': -1})
NoHist == [q |-> <<>>, last |-> FALSE, last_ts |-> 0 - 1]

\* max_age_ms=None, clear_mm=None
NoLimit == 0 - 1
NoClear == 0 - 1

(* ----------------------- callers of _hist_update ----------------------- *)
\* the threads that poll the same sensor: scene threads of one room started
\* twice (a show start and a demo, or two demos) run the same polling loop
Callers == {"t1", "t2"}
NoCall == [pc |-> "idle", sid |-> "TOF1", window_ms |-> 0, now0 |-> 0,
           has |-> FALSE, t |-> 0 - 1, d |-> 0]

\* bool(pressed) as a value; a call that ended in an exception
Bool(b) == [tag |-> "bool", tenths |-> IF b THEN 1 ELSE 0]
Raised == [tag |-> "raised", tenths |-> 0]

\* button_pop returned None
NoEdge == [id |-> "", btn |-> 0, pressed |-> FALSE, seq |-> 0, t_host_ms |-> 0 - 1]

\* btn_num=None
NoBtn == 0 - 1

\* before the first line
NoLine == [json |-> "none", type |-> "tof", id |-> "", seq |-> Absent]

\* the threads dimmer_flicker(..., threaded=True) starts
Workers == {1, 2}
NoFlicker == [pc |-> "none", stop |-> FALSE, left |-> 0, lo |-> 0, hi |-> 0]

(* ------------------------------- Init ---------------------------------- *)
Init ==
    /\ systemState = "OFFLINE"
    /\ Boot = TRUE
    /\ HouseActive = FALSE
    /\ Demo = FALSE
    /\ houseLights = FALSE
    /\ DoorState = [d \in Doors |-> "OPEN"]
    /\ TargetDoorState = [d \in Doors |-> "OPEN"]
    /\ pins = [q \in Pins |-> Unwritten]
    /\ dimPct = 0
    /\ supPc = "top"
    /\ surfacesUp = FALSE
    /\ detPc = "none"
    /\ detBranch = "none"
    /\ detFlash = 0
    /\ shPc = [t \in SHThreads |-> "idle"]
    /\ roomPc = [r \in Rooms |-> "idle"]
    /\ sawBreak = [r \in Rooms |-> FALSE]
    /\ roomAudio = [r \in Rooms |-> "none"]
    /\ demoCount = 0
    /\ doorPc = [d \in Doors |-> "none"]
    /\ doorHold = [d \in Doors |-> 0]
    /\ persistInits = 0
    /\ doorSpawns = 0
    /\ cycles = 0
    /\ audioStopped = FALSE
    /\ shutdownRan = FALSE
    /\ emergencyReq = FALSE
    /\ safeRead = FALSE
    /\ sdJustDone = FALSE
    /\ playEpoch = 0
    /\ cutoffEpoch = 0
    /\ stopEvent = FALSE
    /\ activeSessions = {}
    /\ ses = [s \in Sessions |-> NoSession]
    /\ created = <<>>
    /\ stopPc = "idle"
    /\ stopPolls = 0
    /\ route = NoRoute
    /\ now = 0
    /\ shared = [sid \in SensorIds |-> NoRec]
    /\ farMm = FAR_DISTANCE_MM
    /\ hist = [sid \in SensorIds |-> NoHist]
    /\ gv = [called |-> FALSE, sid |-> "TOF1", key |-> "dist_mm",
             max_age_ms |-> NoLimit, value |-> Default]
    /\ obs = [called |-> FALSE, sid |-> "TOF1", block_mm |-> 0, clear_mm |-> 0,
              ret |-> FALSE]
    /\ hu = [c \in Callers |-> NoCall]
    /\ btnq = <<>>
    /\ btnLines = 0
    /\ bp = [called |-> FALSE, ret |-> NoEdge]
    /\ api = [fn |-> "none", sid |-> "TOF1", ret |-> Absent]
    /\ lastLine = NoLine
    /\ lastAt = 0
    /\ M1_available = FALSE
    /\ M2_available = FALSE
    /\ serOpen = FALSE
    /\ roomState = [r \in Rooms |-> "unset"]
    /\ roomFailed = {}
    /\ helperPc = "none"
    /\ flicker_stop_evt = 0
    /\ fl = [w \in Workers |-> NoFlicker]
    /\ extraTasks = [r \in Rooms |-> 0]
    /\ monPc = "open"
    /\ backoff = BACKOFF_START_S
    /\ slept = 0
    /\ consecFails = 0
    /\ totalFails = 0

(* --------------------------- shutdown() -------------------------------- *)
\* control/shutdown.py shutdown(), first part: HouseActive = False and every
\* relay written 1, up to the t.sleep(1)
shutdown_relays ==
    /\ HouseActive' = FALSE
    /\ pins' = ShutdownRelays(pins)
    /\ sdJustDone' = FALSE
    /\ UNCHANGED libVars
    /\ UNCHANGED <<houseLights, dimPct>>

\* control/shutdown.py shutdown(), last statement: toggleHouseLights(True)
shutdown_lights ==
    /\ toggleHouseLights(TRUE)
    /\ sdJustDone' = TRUE
    /\ UNCHANGED libVars
    /\ UNCHANGED HouseActive

(* ---------------- initialize_system (the main thread) ------------------ *)
\* `if house.Boot:` at the top of the loop; connectArduino(), dim.init()
\* the top of initialize_system's loop; at boot connectArduino() and
\* dim.init() run first. m1, m2, dimmer: whether the board on COM4, the
\* board on COM12 and the dimmer on COM7 can be opened. connectArduino
\* catches the failure of either board; dim.init() calls serial.Serial(...)
\* outside any try, and initialize_system calls dim.init() outside any try,
\* so a dimmer that cannot be opened ends initialize_system with the
\* exception. With the dimmer open, init ends with dim(15).
sup_boot(m1, m2, dimmer) ==
    /\ supPc = "top"
    /\ IF Boot
       THEN /\ persistInits' = Min(persistInits + 1, MaxCycles + 1)
            /\ M1_available' = m1
            /\ M2_available' = m2
            /\ IF dimmer
               THEN /\ serOpen' = TRUE
                    /\ dimPct' = 15
                    /\ supPc' = "boot_sd_relays"
               ELSE /\ supPc' = "raised"
                    /\ UNCHANGED <<serOpen, dimPct>>
       ELSE /\ supPc' = "spawn"
            /\ UNCHANGED <<persistInits, hwVars, dimPct>>
    /\ sdJustDone' = FALSE
    /\ UNCHANGED libVarsButHw
    /\ UNCHANGED <<houseVars, doorVars, pins, surfacesUp, detVars, shPc,
                   roomVars, doorSpawns, cycles, audioStopped, shutdownRan, emergencyReq, safeRead>>

\* the same with every link present
sup_top == sup_boot(TRUE, TRUE, TRUE)

sup_boot_shutdown_relays ==
    /\ supPc = "boot_sd_relays"
    /\ shutdown_relays
    /\ supPc' = "boot_sd_lights"
    /\ UNCHANGED <<systemState, Boot, Demo, doorVars, surfacesUp, detVars, shPc,
                   roomVars, histVars>>

sup_boot_shutdown_lights ==
    /\ supPc = "boot_sd_lights"
    /\ shutdown_lights
    /\ supPc' = "boot_services"
    /\ UNCHANGED <<systemState, Boot, Demo, doorVars, surfacesUp, detVars, shPc,
                   roomVars, histVars>>

\* mutant of sup_boot_services: the block forgets `house.Boot = False`
sup_boot_services_keeps_boot ==
    /\ supPc = "boot_services"
    /\ surfacesUp' = TRUE
    /\ supPc' = "spawn"
    /\ sdJustDone' = FALSE
    /\ UNCHANGED libVars
    /\ UNCHANGED <<systemState, Boot, HouseActive, Demo, houseLights, doorVars, pins,
                   dimPct, detVars, shPc, roomVars, histVars>>

\* HTTP_SERVER and MainGUI threads, remote_sensor_monitor.init, Boot = False
sup_boot_services ==
    /\ supPc = "boot_services"
    /\ surfacesUp' = TRUE
    /\ Boot' = FALSE
    /\ supPc' = "spawn"
    /\ sdJustDone' = FALSE
    /\ UNCHANGED libVars
    /\ UNCHANGED <<systemState, HouseActive, Demo, houseLights, doorVars, pins,
                   dimPct, detVars, shPc, roomVars, histVars>>

\* control/doors.py spawn_doors: reset both maps, start one thread per door
sup_spawn_doors ==
    /\ supPc = "spawn"
    /\ DoorState' = [d \in Doors |-> "OPEN"]
    /\ TargetDoorState' = [d \in Doors |-> "OPEN"]
    /\ doorPc' = [d \in Doors |-> "start"]
    /\ doorHold' = [d \in Doors |-> 0]
    /\ doorSpawns' = Min(doorSpawns + 1, MaxCycles + 1)
    /\ supPc' = "set_online"
    /\ sdJustDone' = FALSE
    /\ UNCHANGED libVars
    /\ UNCHANGED <<houseVars, pins, dimPct, surfacesUp, detVars, shPc, roomVars,
                   persistInits, cycles, audioStopped, shutdownRan, emergencyReq, safeRead>>

sup_set_online ==
    /\ supPc = "set_online"
    /\ systemState' = "ONLINE"
    /\ cycles' = Min(cycles + 1, MaxCycles)
    /\ emergencyReq' = FALSE
    /\ safeRead' = FALSE
    /\ supPc' = "lights_on"
    /\ sdJustDone' = FALSE
    /\ UNCHANGED libVars
    /\ UNCHANGED <<Boot, HouseActive, Demo, houseLights, doorVars, pins, dimPct,
                   surfacesUp, detVars, shPc, roomVars, persistInits, doorSpawns,
                   audioStopped, shutdownRan>>

sup_lights_on ==
    /\ supPc = "lights_on"
    /\ toggleHouseLights(TRUE)
    /\ supPc' = "start_detector"
    /\ sdJustDone' = FALSE
    /\ UNCHANGED libVars
    /\ UNCHANGED <<systemState, Boot, HouseActive, Demo, doorVars, surfacesUp,
                   detVars, shPc, roomVars, histVars>>

\* threading.Thread(target=shutdownDetector).start()
sup_start_detector ==
    /\ supPc = "start_detector"
    /\ detPc \in {"none", "done"}
    /\ detPc' = "watch"
    /\ detBranch' = "none"
    /\ detFlash' = 0
    /\ audioStopped' = FALSE
    /\ shutdownRan' = FALSE
    /\ supPc' = "watch_online"
    /\ sdJustDone' = FALSE
    /\ UNCHANGED libVars
    /\ UNCHANGED <<houseVars, doorVars, pins, dimPct, surfacesUp, shPc, roomVars,
                   persistInits, doorSpawns, cycles, emergencyReq, safeRead>>

\* while house.systemState == "ONLINE": t.sleep(1)
sup_watch_online ==
    /\ supPc = "watch_online"
    /\ systemState # "ONLINE"
    /\ supPc' = "wait_reboot"
    /\ sdJustDone' = FALSE
    /\ UNCHANGED libVars
    /\ UNCHANGED <<houseVars, doorVars, pins, dimPct, surfacesUp, detVars, shPc,
                   roomVars, histVars>>

\* while house.systemState != "REBOOT": t.sleep(1)
sup_wait_reboot ==
    /\ supPc = "wait_reboot"
    /\ systemState = "REBOOT"
    /\ supPc' = "top"
    /\ sdJustDone' = FALSE
    /\ UNCHANGED libVars
    /\ UNCHANGED <<houseVars, doorVars, pins, dimPct, surfacesUp, detVars, shPc,
                   roomVars, histVars>>

Supervisor ==
    \/ sup_top
    \/ sup_boot_shutdown_relays
    \/ sup_boot_shutdown_lights
    \/ sup_boot_services
    \/ sup_spawn_doors
    \/ sup_set_online
    \/ sup_lights_on
    \/ sup_start_detector
    \/ sup_watch_online
    \/ sup_wait_reboot

(* ---------------------- shutdownDetector thread ------------------------ *)
\* while house.systemState == "ONLINE": t.sleep(1)   -- then t.sleep(1)
det_watch ==
    /\ detPc = "watch"
    /\ systemState # "ONLINE"
    /\ detPc' = "settle"
    /\ sdJustDone' = FALSE
    /\ UNCHANGED libVars
    /\ UNCHANGED <<houseVars, doorVars, pins, dimPct, supPc, surfacesUp, detBranch,
                   detFlash, shPc, roomVars, histVars>>

\* if house.systemState == "EmergencyShutoff":
det_read_emergency ==
    /\ detPc = "settle"
    /\ IF systemState = "EmergencyShutoff"
       THEN detBranch' = "E" /\ detPc' = "stop_audio"
       ELSE detBranch' = detBranch /\ detPc' = "read_soft"
    /\ sdJustDone' = FALSE
    /\ UNCHANGED libVars
    /\ UNCHANGED <<houseVars, doorVars, pins, dimPct, supPc, surfacesUp, detFlash,
                   shPc, roomVars, histVars>>

\* mutant of det_read_soft: the soft branch goes straight to the countdown,
\* without stop_all_audio(), shutdown() and the light flashes
det_read_soft_skips_shutdown ==
    /\ detPc = "read_soft"
    /\ detBranch' = IF systemState = "SoftShutdown" THEN "S" ELSE "U"
    /\ detPc' = IF systemState = "SoftShutdown" THEN "countdown" ELSE "stop_audio"
    /\ sdJustDone' = FALSE
    /\ UNCHANGED libVars
    /\ UNCHANGED <<houseVars, doorVars, pins, dimPct, supPc, surfacesUp, detFlash,
                   shPc, roomVars, histVars>>

\* elif house.systemState == "SoftShutdown":  ... else: (unknown shutdown id)
det_read_soft ==
    /\ detPc = "read_soft"
    /\ detBranch' = IF systemState = "SoftShutdown" THEN "S" ELSE "U"
    /\ detPc' = "stop_audio"
    /\ sdJustDone' = FALSE
    /\ UNCHANGED libVars
    /\ UNCHANGED <<houseVars, doorVars, pins, dimPct, supPc, surfacesUp, detFlash,
                   shPc, roomVars, histVars>>

\* stop_all_audio(); play_audio(<announcement>)
det_stop_audio ==
    /\ detPc = "stop_audio"
    /\ audioStopped' = TRUE
    /\ detPc' = "sd_relays"
    /\ sdJustDone' = FALSE
    /\ UNCHANGED libVars
    /\ UNCHANGED <<houseVars, doorVars, pins, dimPct, supPc, surfacesUp, detBranch,
                   detFlash, shPc, roomVars, persistInits, doorSpawns, cycles,
                   shutdownRan, emergencyReq, safeRead>>

det_shutdown_relays ==
    /\ detPc = "sd_relays"
    /\ shutdown_relays
    /\ detPc' = "sd_lights"
    /\ UNCHANGED <<systemState, Boot, Demo, doorVars, supPc, surfacesUp, detBranch,
                   detFlash, shPc, roomVars, histVars>>

det_shutdown_lights ==
    /\ detPc = "sd_lights"
    /\ shutdown_lights
    /\ shutdownRan' = TRUE
    /\ detFlash' = 0
    /\ detPc' = IF detBranch = "U" THEN "input" ELSE "flash_off"
    /\ UNCHANGED <<systemState, Boot, Demo, doorVars, supPc, surfacesUp, detBranch,
                   shPc, roomVars, persistInits, doorSpawns, cycles, audioStopped,
                   emergencyReq, safeRead>>

\* for _ in range(3): toggleHouseLights(False); t.sleep(0.25)
det_flash_off ==
    /\ detPc = "flash_off"
    /\ toggleHouseLights(FALSE)
    /\ detPc' = "flash_on"
    /\ sdJustDone' = FALSE
    /\ UNCHANGED libVars
    /\ UNCHANGED <<systemState, Boot, HouseActive, Demo, doorVars, supPc, surfacesUp,
                   detBranch, detFlash, shPc, roomVars, histVars>>

\*                    toggleHouseLights(True); t.sleep(0.25)
det_flash_on ==
    /\ detPc = "flash_on"
    /\ toggleHouseLights(TRUE)
    /\ detFlash' = detFlash + 1
    /\ detPc' = IF detFlash + 1 < FlashCount THEN "flash_off"
                ELSE IF detBranch = "E" THEN "input" ELSE "countdown"
    /\ sdJustDone' = FALSE
    /\ UNCHANGED libVars
    /\ UNCHANGED <<systemState, Boot, HouseActive, Demo, doorVars, supPc, surfacesUp,
                   detBranch, shPc, roomVars, histVars>>

\* input1 = input().upper(); if input1 == "SAFE": ...  (emergency and unknown)
det_input(line) ==
    /\ detPc = "input"
    /\ IF Upper(line) = "SAFE"
       THEN /\ safeRead' = TRUE
            /\ IF detBranch = "E"
               THEN detPc' = "countdown" /\ UNCHANGED systemState
               ELSE detPc' = "done" /\ systemState' = "REBOOT"
       ELSE UNCHANGED <<safeRead, detPc, systemState>>
    /\ sdJustDone' = FALSE
    /\ UNCHANGED libVars
    /\ UNCHANGED <<Boot, HouseActive, Demo, houseLights, doorVars, pins, dimPct,
                   supPc, surfacesUp, detBranch, detFlash, shPc, roomVars,
                   persistInits, doorSpawns, cycles, audioStopped, shutdownRan,
                   emergencyReq>>

\* for a in range(5, 0, -1): t.sleep(1);  house.systemState = "REBOOT"
det_countdown_reboot ==
    /\ detPc = "countdown"
    /\ systemState' = "REBOOT"
    /\ detPc' = "done"
    /\ sdJustDone' = FALSE
    /\ UNCHANGED libVars
    /\ UNCHANGED <<Boot, HouseActive, Demo, houseLights, doorVars, pins, dimPct,
                   supPc, surfacesUp, detBranch, detFlash, shPc, roomVars, histVars>>

Detector ==
    \/ det_watch
    \/ det_read_emergency
    \/ det_read_soft
    \/ det_stop_audio
    \/ det_shutdown_relays
    \/ det_shutdown_lights
    \/ det_flash_off
    \/ det_flash_on
    \/ \E line \in ConsoleLines : det_input(line)
    \/ det_countdown_reboot

(* --------------------- control/doors.py setDoorState ------------------- *)
setDoorState(targets, id, state) ==
    IF id \in Doors /\ state \in {"OPEN", "CLOPEN", "CLOSED"}
    THEN [targets EXCEPT ![id] = state]
    ELSE targets

(* ------------------ control/system.py StartHouse ----------------------- *)
\* mutant of sh_check: the test forgets `house.systemState == "ONLINE"`
sh_check_ignores_mode(t) ==
    /\ shPc[t] = "check"
    /\ shPc' = [shPc EXCEPT ![t] = IF ~HouseActive THEN "launch" ELSE "idle"]
    /\ sdJustDone' = FALSE
    /\ UNCHANGED libVars
    /\ UNCHANGED <<houseVars, doorVars, pins, dimPct, supPc, surfacesUp, detVars,
                   roomVars, histVars>>

\* if not house.HouseActive and house.systemState == "ONLINE":  (else: log)
sh_check(t) ==
    /\ shPc[t] = "check"
    /\ shPc' = [shPc EXCEPT ![t] =
                   IF ~HouseActive /\ systemState = "ONLINE" THEN "launch" ELSE "idle"]
    /\ sdJustDone' = FALSE
    /\ UNCHANGED libVars
    /\ UNCHANGED <<houseVars, doorVars, pins, dimPct, supPc, surfacesUp, detVars,
                   roomVars, histVars>>

\* threading.Thread(target=<room>.run).start() for the rooms rs: roomPc
\* follows the thread of a room that had none, a room whose thread is still
\* alive gets a further one
start_rooms(rs) ==
    /\ \A r \in rs : roomPc[r] = "idle" \/ extraTasks[r] < MaxExtra
    /\ roomPc' = [r \in Rooms |->
                     IF r \in rs /\ roomPc[r] = "idle" THEN "start" ELSE roomPc[r]]
    /\ sawBreak' = [r \in Rooms |->
                       IF r \in rs /\ roomPc[r] = "idle" THEN FALSE ELSE sawBreak[r]]
    /\ extraTasks' = [r \in Rooms |->
                         IF r \in rs /\ roomPc[r] # "idle" THEN extraTasks[r] + 1
                         ELSE extraTasks[r]]

\* HouseActive = True; both entry doors CLOSED; lights off; five room threads
sh_launch(t) ==
    /\ shPc[t] = "launch"
    /\ HouseActive' = TRUE
    /\ TargetDoorState' = setDoorState(setDoorState(TargetDoorState, 1, "CLOSED"),
                                       2, "CLOSED")
    /\ toggleHouseLights(FALSE)
    /\ start_rooms(Rooms)
    /\ shPc' = [shPc EXCEPT ![t] = "wait"]
    /\ sdJustDone' = FALSE
    /\ UNCHANGED libVarsButInst
    /\ UNCHANGED <<systemState, Boot, Demo, DoorState, doorPc, doorHold, supPc, surfacesUp,
                   detVars, roomAudio, demoCount, histVars>>

\* while house.HouseActive: if BreakCheck(): break; t.sleep(.1)
sh_wait(t) ==
    /\ shPc[t] = "wait"
    /\ ~HouseActive \/ BreakCheck
    /\ shPc' = [shPc EXCEPT ![t] = "idle"]
    /\ sdJustDone' = FALSE
    /\ UNCHANGED libVars
    /\ UNCHANGED <<houseVars, doorVars, pins, dimPct, supPc, surfacesUp, detVars,
                   roomVars, histVars>>

StartHouse == \E t \in SHThreads : sh_check(t) \/ sh_launch(t) \/ sh_wait(t)

(* ------------- operator surfaces: ui/gui.py, ui/http_server.py --------- *)
\* change_system_state(new_state) / GET /EMERGENCY_SHUTOFF, /SOFT_SHUTDOWN
op_mode(s) ==
    /\ surfacesUp
    /\ systemState' = s
    /\ emergencyReq' = (emergencyReq \/ s = "EmergencyShutoff")
    /\ sdJustDone' = FALSE
    /\ UNCHANGED libVars
    /\ UNCHANGED <<Boot, HouseActive, Demo, houseLights, doorVars, pins, dimPct,
                   supPc, surfacesUp, detVars, shPc, roomVars, persistInits,
                   doorSpawns, cycles, audioStopped, shutdownRan, safeRead>>

\* START button / GET /START: threading.Thread(target=StartHouse).start()
op_start(t) ==
    /\ surfacesUp
    /\ shPc[t] = "idle"
    /\ shPc' = [shPc EXCEPT ![t] = "check"]
    /\ sdJustDone' = FALSE
    /\ UNCHANGED libVars
    /\ UNCHANGED <<houseVars, doorVars, pins, dimPct, supPc, surfacesUp, detVars,
                   roomVars, histVars>>

\* demoEvent(room)
op_demo(room) ==
    /\ surfacesUp
    /\ roomPc[room] = "idle"
    /\ demoCount < MaxDemos
    /\ demoCount' = demoCount + 1
    /\ Demo' = TRUE
    /\ HouseActive' = TRUE
    /\ toggleHouseLights(FALSE)
    /\ roomPc' = [roomPc EXCEPT ![room] = "start"]
    /\ sawBreak' = [sawBreak EXCEPT ![room] = FALSE]
    /\ sdJustDone' = FALSE
    /\ UNCHANGED libVars
    /\ UNCHANGED <<systemState, Boot, doorVars, supPc, surfacesUp, detVars, shPc,
                   roomAudio, histVars>>

\* demoEvent(room) while a run() thread of the room is alive: the same
\* assignments, and one more thread of the room
op_demo_again(room) ==
    /\ surfacesUp
    /\ roomPc[room] # "idle"
    /\ demoCount < MaxDemos
    /\ demoCount' = demoCount + 1
    /\ Demo' = TRUE
    /\ HouseActive' = TRUE
    /\ toggleHouseLights(FALSE)
    /\ start_rooms({room})
    /\ sdJustDone' = FALSE
    /\ UNCHANGED libVarsButInst
    /\ UNCHANGED <<systemState, Boot, doorVars, supPc, surfacesUp, detVars, shPc,
                   roomAudio, histVars>>

\* Toggle House Lights button / GET /ToggleHouseLights
op_toggle_lights ==
    /\ surfacesUp
    /\ toggleHouseLights(~houseLights)
    /\ sdJustDone' = FALSE
    /\ UNCHANGED libVars
    /\ UNCHANGED <<systemState, Boot, HouseActive, Demo, doorVars, supPc, surfacesUp,
                   detVars, shPc, roomVars, histVars>>

\* Open/Close Door buttons / GET /Door<N>Open, /Door<N>Close
op_door(id, state) ==
    /\ surfacesUp
    /\ TargetDoorState' = setDoorState(TargetDoorState, id, state)
    /\ sdJustDone' = FALSE
    /\ UNCHANGED libVars
    /\ UNCHANGED <<houseVars, DoorState, doorPc, doorHold, pins, dimPct, supPc, surfacesUp,
                   detVars, shPc, roomVars, histVars>>

Operator ==
    \/ \E s \in {"EmergencyShutoff", "SoftShutdown"} : op_mode(s)
    \/ \E t \in SHThreads : op_start(t)
    \/ \E room \in Rooms : op_demo(room)
    \/ op_toggle_lights
    \/ \E id \in Doors, state \in {"OPEN", "CLOSED"} : op_door(id, state)

(* ------------------- control/doors.py door_process --------------------- *)
\* rsm.obstructed(...) as the door task sees it: any answer at any poll
SensorAnswers == BOOLEAN

DoorOthersUnchanged ==
    /\ sdJustDone' = FALSE
    /\ UNCHANGED libVars
    /\ UNCHANGED <<houseVars, dimPct, supPc, surfacesUp, detVars, shPc, roomVars,
                   histVars>>

\* open(): m1Digital_Write(pin, 1); house.DoorState[id] = "OPEN"
door_open(d) ==
    /\ pins' = [pins EXCEPT ![DOOR_SOLENOID_PINS[d]] = 1]
    /\ DoorState' = [DoorState EXCEPT ![d] = "OPEN"]

\* door_process: open(); main(): DoorState[id] = "OPEN"; t.sleep(1)
door_start(d) ==
    /\ doorPc[d] = "start"
    /\ door_open(d)
    /\ doorPc' = [doorPc EXCEPT ![d] = "main"]
    /\ UNCHANGED <<TargetDoorState, doorHold>>
    /\ DoorOthersUnchanged

\* mutant of door_main_shutdown: the task ends without the final open()
door_main_shutdown_no_open(d) ==
    /\ doorPc[d] = "main"
    /\ systemState # "ONLINE"
    /\ doorPc' = [doorPc EXCEPT ![d] = "done"]
    /\ UNCHANGED <<pins, DoorState, TargetDoorState, doorHold>>
    /\ DoorOthersUnchanged

\* main(): the loop left because systemState is not ONLINE: open() and end
door_main_shutdown(d) ==
    /\ doorPc[d] = "main"
    /\ systemState # "ONLINE"
    /\ door_open(d)
    /\ doorPc' = [doorPc EXCEPT ![d] = "done"]
    /\ UNCHANGED <<TargetDoorState, doorHold>>
    /\ DoorOthersUnchanged

\* main(): one pass of `while ONLINE`, entering handle_change() on a mismatch
door_main_change(d) ==
    /\ doorPc[d] = "main"
    /\ systemState = "ONLINE"
    /\ DoorState[d] # TargetDoorState[d]
    /\ CASE TargetDoorState[d] = "OPEN" ->
              /\ door_open(d)
              /\ UNCHANGED <<doorPc, doorHold>>
         [] TargetDoorState[d] = "CLOSED" ->
              /\ doorPc' = [doorPc EXCEPT ![d] = "closed_loop"]
              /\ UNCHANGED <<pins, DoorState, doorHold>>
         [] TargetDoorState[d] = "CLOPEN" ->
              /\ door_open(d)
              /\ doorHold' = [doorHold EXCEPT ![d] = 0]
              /\ doorPc' = [doorPc EXCEPT ![d] = "clopen_hold"]
    /\ UNCHANGED TargetDoorState
    /\ DoorOthersUnchanged

\* handle_change(), CLOPEN: for i in range(12): if not ONLINE: break;
\* t.sleep(1)   -- then setDoorState(id, "CLOSED")
door_clopen_hold(d) ==
    /\ doorPc[d] = "clopen_hold"
    /\ IF systemState # "ONLINE" \/ doorHold[d] = CLOPEN_HOLD_TICKS
       THEN /\ TargetDoorState' = setDoorState(TargetDoorState, d, "CLOSED")
            /\ doorPc' = [doorPc EXCEPT ![d] = "main"]
            /\ doorHold' = [doorHold EXCEPT ![d] = 0]
       ELSE /\ doorHold' = [doorHold EXCEPT ![d] = @ + 1]
            /\ UNCHANGED <<TargetDoorState, doorPc>>
    /\ UNCHANGED <<pins, DoorState>>
    /\ DoorOthersUnchanged

\* handle_change(), CLOSED: one test of `while ONLINE and target == CLOSED`,
\* the idle-profile obstruction check, and the close command of
\* close_attempt_until_clear() when the way is clear
door_closed_loop(d, obstructed) ==
    /\ doorPc[d] = "closed_loop"
    /\ IF systemState = "ONLINE" /\ TargetDoorState[d] = "CLOSED"
       THEN IF obstructed
            THEN /\ pins' = [pins EXCEPT ![DOOR_SOLENOID_PINS[d]] = 1]
                 /\ doorPc' = [doorPc EXCEPT ![d] = "pre_close_delay"]
            ELSE /\ pins' = [pins EXCEPT ![DOOR_SOLENOID_PINS[d]] = 0]
                 /\ doorPc' = [doorPc EXCEPT ![d] = "monitor_first"]
       ELSE /\ doorPc' = [doorPc EXCEPT ![d] = "main"]
            /\ UNCHANGED pins
    /\ UNCHANGED <<DoorState, TargetDoorState, doorHold>>
    /\ DoorOthersUnchanged

\* after t.sleep(OBSTRUCT_RETRY_DELAY_S): close_attempt_until_clear() starts
\* with m1Digital_Write(pin, 0) and the self-pass sleep
door_pre_close_delay(d) ==
    /\ doorPc[d] = "pre_close_delay"
    /\ pins' = [pins EXCEPT ![DOOR_SOLENOID_PINS[d]] = 0]
    /\ doorPc' = [doorPc EXCEPT ![d] = "monitor_first"]
    /\ UNCHANGED <<DoorState, TargetDoorState, doorHold>>
    /\ DoorOthersUnchanged

\* close_attempt_until_clear(): one test of the monitor loop.  `first` is the
\* test right after the window was (re)started, when neither the window nor
\* the clear-hold time can have elapsed; windowOver and clearHeld say whether
\* CLOSE_MONITOR_WINDOW_S resp. CLEAR_HOLD_S have elapsed at a later test.
door_monitor(d, first, obstructed, windowOver, clearHeld) ==
    /\ doorPc[d] = (IF first THEN "monitor_first" ELSE "monitor")
    /\ IF systemState # "ONLINE" \/ (~first /\ windowOver)
       THEN \* loop left: "closed (timeout reached, no obstruction)"
            /\ DoorState' = [DoorState EXCEPT ![d] = "CLOSED"]
            /\ doorPc' = [doorPc EXCEPT ![d] = "main"]
            /\ UNCHANGED pins
       ELSE IF obstructed
            THEN /\ pins' = [pins EXCEPT ![DOOR_SOLENOID_PINS[d]] = 1]
                 /\ doorPc' = [doorPc EXCEPT ![d] = "retry_delay"]
                 /\ UNCHANGED DoorState
            ELSE IF ~first /\ clearHeld
                 THEN /\ DoorState' = [DoorState EXCEPT ![d] = "CLOSED"]
                      /\ doorPc' = [doorPc EXCEPT ![d] = "main"]
                      /\ UNCHANGED pins
                 ELSE /\ doorPc' = [doorPc EXCEPT ![d] = "monitor"]
                      /\ UNCHANGED <<pins, DoorState>>
    /\ UNCHANGED <<TargetDoorState, doorHold>>
    /\ DoorOthersUnchanged

\* after the obstruction retry sleep: close again, self-pass sleep, new window
door_retry_delay(d) ==
    /\ doorPc[d] = "retry_delay"
    /\ pins' = [pins EXCEPT ![DOOR_SOLENOID_PINS[d]] = 0]
    /\ doorPc' = [doorPc EXCEPT ![d] = "monitor_first"]
    /\ UNCHANGED <<DoorState, TargetDoorState, doorHold>>
    /\ DoorOthersUnchanged

DoorStep(d) ==
    \/ door_start(d)
    \/ door_main_shutdown(d)
    \/ door_main_change(d)
    \/ door_clopen_hold(d)
    \/ \E obstructed \in SensorAnswers : door_closed_loop(d, obstructed)
    \/ door_pre_close_delay(d)
    \/ \E first, obstructed, windowOver, clearHeld \in BOOLEAN :
          door_monitor(d, first, obstructed, windowOver, clearHeld)
    \/ door_retry_delay(d)

\* a scene script calling setDoorState (gangway: CLOPEN on door 1;
\* quarterdeck: OPEN / CLOSED on door 2)
scene_door(id, state) ==
    /\ \/ id = 1 /\ state = "CLOPEN"
       \/ id = 2 /\ state \in {"OPEN", "CLOSED"}
    /\ systemState = "ONLINE"
    /\ TargetDoorState' = setDoorState(TargetDoorState, id, state)
    /\ sdJustDone' = FALSE
    /\ UNCHANGED libVars
    /\ UNCHANGED <<houseVars, DoorState, doorPc, doorHold, pins, dimPct, supPc,
                   surfacesUp, detVars, shPc, roomVars, histVars>>

(* --------------------- room tasks, seen from outside ------------------- *)
\* every run() polls BreakCheck in its waits and returns when it is true
room_return(r) ==
    /\ roomPc[r] # "idle"
    /\ BreakCheck
    /\ roomPc' = [roomPc EXCEPT ![r] = "idle"]
    /\ sawBreak' = [sawBreak EXCEPT ![r] = TRUE]
    /\ UNCHANGED <<roomAudio, demoCount>>
    /\ sdJustDone' = FALSE
    /\ UNCHANGED libVars
    /\ UNCHANGED <<houseVars, doorVars, pins, dimPct, supPc, surfacesUp, detVars,
                   shPc, histVars>>

\* a further thread of the room does the same
extra_return(r) ==
    /\ extraTasks[r] > 0
    /\ BreakCheck
    /\ extraTasks' = [extraTasks EXCEPT ![r] = @ - 1]
    /\ sdJustDone' = FALSE
    /\ UNCHANGED libVarsButInst
    /\ UNCHANGED <<houseVars, doorVars, pins, dimPct, supPc, surfacesUp, detVars,
                   shPc, roomVars, histVars>>

(* ------------------------- room tasks, in detail ----------------------- *)
\* Each run() thread moves between the points where it sleeps or polls.  A
\* loop `for i in range(n): t.sleep(1); if BreakCheck(): return` is one
\* position: its passes that see BreakCheck false change nothing, so the
\* step taken there is the pass that leaves the loop.  The helper threads a
\* room starts (lightning, dropDownFlash, dimmer4_fire, brig, the gangway
\* audio loop) are not followed.
WritePin(p, q, v) == [p EXCEPT ![q] = v]

RoomFrame ==
    /\ sdJustDone' = FALSE
    /\ UNCHANGED libVarsButFail
    /\ UNCHANGED <<systemState, Boot, DoorState, doorPc, doorHold, supPc,
                   surfacesUp, detVars, shPc, demoCount, histVars>>

RoomOthersUnchangedButTags ==
    /\ RoomFrame
    /\ UNCHANGED failVars

RoomOthersUnchanged ==
    /\ RoomOthersUnchangedButTags
    /\ UNCHANGED roomState

\* house.gangway_state, house.cargoHold_state, house.TRstate = tag; the
\* quarterdeck keeps its tag in house.SRstate; the graveyard keeps none
TaggedRooms == Rooms \ {"graveyard"}
room_tag(r, tag) == roomState' = [roomState EXCEPT ![r] = tag]

RoomQuiet == UNCHANGED <<HouseActive, Demo, houseLights, pins, dimPct,
                         TargetDoorState, roomAudio>>

room_goto(r, pc) == roomPc' = [roomPc EXCEPT ![r] = pc]

\* a call of BreakCheck() by the thread of room r
room_poll(r) == sawBreak' = [sawBreak EXCEPT ![r] = @ \/ BreakCheck]

\* play_audio(room, clip, ...)
room_play(r, clip) == roomAudio' = [roomAudio EXCEPT ![r] = clip]

\* t.sleep(1) passes with `if BreakCheck(): return`, then on to the next phase
room_wait(r, at, next) ==
    /\ roomPc[r] = at
    /\ room_poll(r)
    /\ room_goto(r, IF BreakCheck THEN "idle" ELSE next)
    /\ RoomQuiet
    /\ RoomOthersUnchanged

\* `if BreakCheck() or house.Demo:` at the end of an iteration
room_check(r) ==
    /\ roomPc[r] = "check"
    /\ room_poll(r)
    /\ room_goto(r, IF BreakCheck \/ Demo THEN "end" ELSE "top")
    /\ RoomQuiet
    /\ RoomOthersUnchanged

\* gangway, cargoHold: `if house.Demo: Demo = False; HouseActive = False`,
\* toggleHouseLights(True), return
room_end(r) ==
    /\ roomPc[r] = "end"
    /\ Demo' = FALSE
    /\ HouseActive' = IF Demo THEN FALSE ELSE HouseActive
    /\ toggleHouseLights(TRUE)
    /\ room_goto(r, "idle")
    /\ UNCHANGED <<TargetDoorState, sawBreak, roomAudio>>
    /\ RoomOthersUnchanged

(* rooms/gangway.py run *)
\* while house.HouseActive or house.Demo: setDoorState(1, "CLOPEN")
\* (on entry from the start: house.gangway_state = "ACTIVE"; when the loop
\* ends: house.gangway_state = "INACTIVE")
gangway_top ==
    /\ roomPc["gangway"] \in {"start", "top"}
    /\ IF HouseActive \/ Demo
       THEN /\ TargetDoorState' = setDoorState(TargetDoorState, 1, "CLOPEN")
            /\ room_goto("gangway", "wait")
            /\ IF roomPc["gangway"] = "start"
               THEN room_tag("gangway", "ACTIVE")
               ELSE UNCHANGED roomState
       ELSE /\ room_goto("gangway", "idle")
            /\ room_tag("gangway", "INACTIVE")
            /\ UNCHANGED TargetDoorState
    /\ UNCHANGED <<HouseActive, Demo, houseLights, pins, dimPct, sawBreak, roomAudio>>
    /\ RoomOthersUnchangedButTags

\* while not rsm.obstructed("TOF1", ...): BreakCheck; every 30 s CLOPEN again;
\* then play_audio and the strobe on
gangway_wait(obstructed, idle30) ==
    /\ roomPc["gangway"] = "wait"
    /\ IF obstructed
       THEN /\ room_play("gangway", "gangwayHit1.wav")
            /\ pins' = WritePin(pins, 35, 0)
            /\ room_goto("gangway", "strobe")
            /\ UNCHANGED <<TargetDoorState, sawBreak>>
       ELSE /\ room_poll("gangway")
            /\ room_goto("gangway", IF BreakCheck THEN "idle" ELSE "wait")
            /\ TargetDoorState' = IF ~BreakCheck /\ idle30
                                  THEN setDoorState(TargetDoorState, 1, "CLOPEN")
                                  ELSE TargetDoorState
            /\ UNCHANGED <<pins, roomAudio>>
    /\ UNCHANGED <<HouseActive, Demo, houseLights, dimPct>>
    /\ RoomOthersUnchanged

\* for i in range(20): t.sleep(1); BreakCheck; then the strobe off
gangway_strobe ==
    /\ roomPc["gangway"] = "strobe"
    /\ room_poll("gangway")
    /\ room_goto("gangway", IF BreakCheck THEN "idle" ELSE "check")
    /\ pins' = IF BreakCheck THEN pins ELSE WritePin(pins, 35, 1)
    /\ UNCHANGED <<HouseActive, Demo, houseLights, dimPct, TargetDoorState, roomAudio>>
    /\ RoomOthersUnchanged

gangway_run ==
    \/ gangway_top
    \/ \E obstructed \in BOOLEAN, idle30 \in BOOLEAN : gangway_wait(obstructed, idle30)
    \/ gangway_strobe
    \/ room_check("gangway")
    \/ room_end("gangway")

(* rooms/treasureRoom.py run *)
\* while house.HouseActive or house.Demo:
treasureRoom_top ==
    /\ roomPc["treasureRoom"] \in {"start", "top"}
    /\ room_goto("treasureRoom", IF HouseActive \/ Demo THEN "calm" ELSE "idle")
    /\ IF HouseActive \/ Demo
       THEN IF roomPc["treasureRoom"] = "start"
            THEN room_tag("treasureRoom", "ACTIVE")
            ELSE UNCHANGED roomState
       ELSE room_tag("treasureRoom", "INACTIVE")
    /\ UNCHANGED sawBreak
    /\ RoomQuiet
    /\ RoomOthersUnchangedButTags

\* dimmer4_fire(duration_s): th = threading.Thread(target=_run); th.start()
dimmer4_fire == helperPc' = "run"

\* the waits of 6, 10 and 2 s with dimmer4_fire(10) between them, then
\* Strobe 3 on
treasureRoom_calm ==
    /\ roomPc["treasureRoom"] = "calm"
    /\ room_poll("treasureRoom")
    /\ room_goto("treasureRoom", IF BreakCheck THEN "idle" ELSE "strobe")
    /\ pins' = IF BreakCheck THEN pins ELSE WritePin(pins, 2, 0)
    /\ IF BreakCheck THEN UNCHANGED helperPc ELSE dimmer4_fire
    /\ UNCHANGED <<HouseActive, Demo, houseLights, dimPct, TargetDoorState, roomAudio>>
    /\ UNCHANGED <<roomState, roomFailed>>
    /\ RoomFrame

\* the wait of 10 s, then Strobe 3 off and dimmer4_fire(500)
treasureRoom_strobe ==
    /\ roomPc["treasureRoom"] = "strobe"
    /\ room_poll("treasureRoom")
    /\ room_goto("treasureRoom", IF BreakCheck THEN "idle" ELSE "fire")
    /\ pins' = IF BreakCheck THEN pins ELSE WritePin(pins, 2, 1)
    /\ IF BreakCheck THEN UNCHANGED helperPc ELSE dimmer4_fire
    /\ UNCHANGED <<HouseActive, Demo, houseLights, dimPct, TargetDoorState, roomAudio>>
    /\ UNCHANGED <<roomState, roomFailed>>
    /\ RoomFrame

\* dimmer4_fire's _run, in its own thread: `if BreakCheck(): return`, else
\* dim.dimmer(4, ...) -- control/dimmer_controller.py has no `dimmer`, the
\* attribute lookup raises AttributeError and the helper thread ends
dimmer4_fire_run ==
    /\ helperPc = "run"
    /\ helperPc' = IF BreakCheck THEN "none" ELSE "raised"
    /\ UNCHANGED <<roomState, roomFailed, roomPc, sawBreak>>
    /\ RoomQuiet
    /\ RoomFrame

\* `if BreakCheck() or house.Demo: house.Demo = False; break`
treasureRoom_check ==
    /\ roomPc["treasureRoom"] = "check"
    /\ room_poll("treasureRoom")
    /\ room_goto("treasureRoom", IF BreakCheck \/ Demo THEN "idle" ELSE "top")
    /\ Demo' = IF BreakCheck \/ Demo THEN FALSE ELSE Demo
    /\ IF BreakCheck \/ Demo
       THEN room_tag("treasureRoom", "INACTIVE")
       ELSE UNCHANGED roomState
    /\ UNCHANGED <<HouseActive, houseLights, pins, dimPct, TargetDoorState, roomAudio>>
    /\ RoomOthersUnchangedButTags

treasureRoom_run ==
    \/ treasureRoom_top
    \/ treasureRoom_calm
    \/ treasureRoom_strobe
    \/ room_wait("treasureRoom", "fire", "check")
    \/ treasureRoom_check

(* rooms/cargoHold.py run *)
\* the brig thread is started; m1Digital_Write(51, 0)
cargoHold_start ==
    /\ roomPc["cargoHold"] = "start"
    /\ room_tag("cargoHold", "ACTIVE")
    /\ pins' = WritePin(pins, 51, 0)
    /\ room_goto("cargoHold", "top")
    /\ UNCHANGED <<HouseActive, Demo, houseLights, dimPct, TargetDoorState,
                   sawBreak, roomAudio>>
    /\ RoomOthersUnchangedButTags

\* while house.HouseActive or house.Demo: filipe ambient on, triangle strobe off
cargoHold_top ==
    /\ roomPc["cargoHold"] = "top"
    /\ IF HouseActive \/ Demo
       THEN /\ pins' = WritePin(WritePin(pins, 28, 0), 36, 1)
            /\ room_goto("cargoHold", "wait")
       ELSE /\ room_goto("cargoHold", "idle")
            /\ UNCHANGED pins
    /\ roomState' = IF HouseActive \/ Demo THEN roomState
                    ELSE [roomState EXCEPT !["cargoHold"] = "INACTIVE"]
    /\ UNCHANGED <<HouseActive, Demo, houseLights, dimPct, TargetDoorState,
                   sawBreak, roomAudio>>
    /\ RoomOthersUnchangedButTags

\* while not rsm.get_button_value("BTN1"): t.sleep(.05); BreakCheck; then
\* play_audio, the triangle strobe on and the first half of a flicker
cargoHold_wait(pressed) ==
    /\ roomPc["cargoHold"] = "wait"
    /\ IF pressed
       THEN /\ room_play("cargoHold", "triangleHit.wav")
            /\ pins' = WritePin(WritePin(pins, 36, 0), 28, 1)
            /\ room_goto("cargoHold", "flicker")
            /\ UNCHANGED sawBreak
       ELSE /\ BreakCheck
            /\ room_poll("cargoHold")
            /\ room_goto("cargoHold", "idle")
            /\ UNCHANGED <<pins, roomAudio>>
    /\ UNCHANGED <<HouseActive, Demo, houseLights, dimPct, TargetDoorState>>
    /\ RoomOthersUnchanged

\* for i in range(8): 28 off, sleep, 28 on, sleep -- no BreakCheck here
cargoHold_flicker ==
    /\ roomPc["cargoHold"] = "flicker"
    /\ pins' = WritePin(pins, 28, 0)
    /\ room_goto("cargoHold", "hold")
    /\ UNCHANGED <<HouseActive, Demo, houseLights, dimPct, TargetDoorState,
                   sawBreak, roomAudio>>
    /\ RoomOthersUnchanged

cargoHold_run ==
    \/ cargoHold_start
    \/ cargoHold_top
    \/ \E pressed \in BOOLEAN : cargoHold_wait(pressed)
    \/ cargoHold_flicker
    \/ room_wait("cargoHold", "hold", "check")
    \/ room_check("cargoHold")
    \/ room_end("cargoHold")

(* rooms/quarterdeck.py run *)
\* play_audio("quarterdeck", "quarterdeckAmbient.wav", looping=True)
quarterdeck_start ==
    /\ roomPc["quarterdeck"] = "start"
    /\ room_play("quarterdeck", "quarterdeckAmbient.wav")
    /\ room_goto("quarterdeck", "top")
    /\ room_tag("quarterdeck", "ACTIVE")
    /\ UNCHANGED <<HouseActive, Demo, houseLights, pins, dimPct, TargetDoorState,
                   sawBreak>>
    /\ RoomOthersUnchangedButTags

\* while house.HouseActive or house.Demo:
quarterdeck_top ==
    /\ roomPc["quarterdeck"] = "top"
    /\ room_goto("quarterdeck", IF HouseActive \/ Demo THEN "wait" ELSE "idle")
    /\ IF HouseActive \/ Demo
       THEN UNCHANGED roomState
       ELSE room_tag("quarterdeck", "INACTIVE")
    /\ UNCHANGED sawBreak
    /\ RoomQuiet
    /\ RoomOthersUnchangedButTags

\* while not rsm.obstructed("TOF2", ...): BreakCheck -> return; then
\* play_audio(quarterdeckTease1)
quarterdeck_wait(obstructed) ==
    /\ roomPc["quarterdeck"] = "wait"
    /\ IF obstructed
       THEN /\ room_play("quarterdeck", "quarterdeckTease1.wav")
            /\ room_goto("quarterdeck", "tease")
            /\ UNCHANGED sawBreak
       ELSE /\ BreakCheck
            /\ room_poll("quarterdeck")
            /\ room_goto("quarterdeck", "idle")
            /\ UNCHANGED roomAudio
    /\ UNCHANGED <<HouseActive, Demo, houseLights, pins, dimPct, TargetDoorState>>
    /\ RoomOthersUnchanged

\* for i in range(n): [lightning(...)]; if BreakCheck(): break; t.sleep(1)
\* -- the break leaves the for loop only
quarterdeck_for(at, next) ==
    /\ roomPc["quarterdeck"] = at
    /\ room_poll("quarterdeck")
    /\ room_goto("quarterdeck", next)
    /\ RoomQuiet
    /\ RoomOthersUnchanged

\* t.sleep(3); if BreakCheck(): break (this one leaves the while loop); else
\* strobe on, play_audio(quarterdeckHit1), setDoorState(2, "OPEN")
quarterdeck_pause ==
    /\ roomPc["quarterdeck"] = "pause"
    /\ room_poll("quarterdeck")
    /\ IF BreakCheck
       THEN /\ room_goto("quarterdeck", "idle")
            /\ room_tag("quarterdeck", "INACTIVE")
            /\ UNCHANGED <<pins, roomAudio, TargetDoorState>>
       ELSE /\ pins' = WritePin(pins, 9, 0)
            /\ room_play("quarterdeck", "quarterdeckHit1.wav")
            /\ TargetDoorState' = setDoorState(TargetDoorState, 2, "OPEN")
            /\ room_goto("quarterdeck", "hit")
            /\ UNCHANGED roomState
    /\ UNCHANGED <<HouseActive, Demo, houseLights, dimPct>>
    /\ RoomOthersUnchangedButTags

\* setDoorState(2, "CLOSED"); m1Digital_Write(9, 1)
quarterdeck_close ==
    /\ roomPc["quarterdeck"] = "close"
    /\ TargetDoorState' = setDoorState(TargetDoorState, 2, "CLOSED")
    /\ pins' = WritePin(pins, 9, 1)
    /\ room_goto("quarterdeck", "check")
    /\ UNCHANGED <<HouseActive, Demo, houseLights, dimPct, sawBreak, roomAudio>>
    /\ RoomOthersUnchanged

\* house.Demo = False; toggleHouseLights(True); break
quarterdeck_end ==
    /\ roomPc["quarterdeck"] = "end"
    /\ Demo' = FALSE
    /\ toggleHouseLights(TRUE)
    /\ room_goto("quarterdeck", "idle")
    /\ room_tag("quarterdeck", "INACTIVE")
    /\ UNCHANGED <<HouseActive, TargetDoorState, sawBreak, roomAudio>>
    /\ RoomOthersUnchangedButTags

quarterdeck_run ==
    \/ quarterdeck_start
    \/ quarterdeck_top
    \/ \E obstructed \in BOOLEAN : quarterdeck_wait(obstructed)
    \/ quarterdeck_for("tease", "pause")
    \/ quarterdeck_pause
    \/ quarterdeck_for("hit", "storm")
    \/ quarterdeck_for("storm", "close")
    \/ quarterdeck_close
    \/ room_check("quarterdeck")
    \/ quarterdeck_end

(* rooms/graveyard.py run *)
\* while house.HouseActive or house.Demo: ship lights and deck ambient on;
\* then the first m1Digital_Write(31, 0) of `while True:`
graveyard_top ==
    /\ roomPc["graveyard"] \in {"start", "top"}
    /\ IF HouseActive \/ Demo
       THEN /\ pins' = WritePin(WritePin(WritePin(WritePin(pins, 6, 0), 7, 0), 8, 0), 31, 0)
            /\ room_goto("graveyard", "on")
       ELSE /\ room_goto("graveyard", "idle")
            /\ UNCHANGED pins
    /\ UNCHANGED <<HouseActive, Demo, houseLights, dimPct, TargetDoorState,
                   sawBreak, roomAudio>>
    /\ RoomOthersUnchanged

\* t.sleep(7); m1Digital_Write(31, 1)
graveyard_on ==
    /\ roomPc["graveyard"] = "on"
    /\ pins' = WritePin(pins, 31, 1)
    /\ room_goto("graveyard", "off")
    /\ UNCHANGED <<HouseActive, Demo, houseLights, dimPct, TargetDoorState,
                   sawBreak, roomAudio>>
    /\ RoomOthersUnchanged

\* t.sleep(7); if BreakCheck(): return; else around `while True:` again
graveyard_off ==
    /\ roomPc["graveyard"] = "off"
    /\ room_poll("graveyard")
    /\ room_goto("graveyard", IF BreakCheck THEN "idle" ELSE "on")
    /\ pins' = IF BreakCheck THEN pins ELSE WritePin(pins, 31, 0)
    /\ UNCHANGED <<HouseActive, Demo, houseLights, dimPct, TargetDoorState, roomAudio>>
    /\ RoomOthersUnchanged

graveyard_run ==
    \/ graveyard_top
    \/ graveyard_on
    \/ graveyard_off

\* the steps of the run() thread of room r
\* a call of the scene script raises inside run(): run() has no handler and
\* neither has the Thread that StartHouse (or the demo button) gave it as
\* target, so the exception ends that thread -- and nothing else
room_raise_cascade(r) ==
    /\ roomPc[r] # "idle"
    /\ room_goto(r, "idle")
    /\ roomFailed' = roomFailed \cup {r}
    /\ HouseActive' = FALSE
    /\ UNCHANGED <<Demo, houseLights, pins, dimPct, TargetDoorState, roomAudio>>
    /\ UNCHANGED <<roomState, helperPc, sawBreak>>
    /\ RoomFrame

room_raise(r) ==
    /\ roomPc[r] # "idle"
    /\ room_goto(r, "idle")
    /\ roomFailed' = roomFailed \cup {r}
    /\ RoomQuiet
    /\ UNCHANGED <<roomState, helperPc, sawBreak>>
    /\ RoomFrame

RoomStep(r) ==
    \/ r = "gangway" /\ gangway_run
    \/ r = "treasureRoom" /\ treasureRoom_run
    \/ r = "cargoHold" /\ cargoHold_run
    \/ r = "quarterdeck" /\ quarterdeck_run
    \/ r = "graveyard" /\ graveyard_run

(* ------------------- control/audio_manager.py: playback ---------------- *)
\* every variable of the show except sdJustDone
showVars == <<houseVars, doorVars, pins, dimPct, supPc, surfacesUp, detVars, shPc,
              roomVars, histVars>>

AudioOthersUnchanged ==
    /\ sdJustDone' = FALSE
    /\ UNCHANGED <<showVars, routeVars, sensorVars, moreVars>>

\* play_audio: a file is played honouring stop_all_audio and BreakCheck, a
\* text (TTS) ignoring both
\* mutant of HonorFlag: text-to-speech is played with the flags of a file
HonorFlag_tts_too(kind) == kind \in {"file", "tts"}

HonorFlag(kind) == kind = "file"

\* play_audio(...) up to the entry of _play_pcm_nonblocking (threaded) or of
\* _play_pcm_blocking; the text forms pass looping=False and threaded=True
\* whatever the caller asked for
play_audio(s, kind, threaded, looping) ==
    /\ ses[s].pc = "none"
    /\ \A q \in Sessions : q < s => ses[q].pc # "none"
    /\ LET thr == kind = "tts" \/ threaded
           loop == kind = "file" /\ looping
       IN /\ ses' = [ses EXCEPT ![s] =
                        [@ EXCEPT !.pc = IF thr THEN "called" ELSE "open",
                                  !.kind = kind, !.threaded = thr,
                                  !.looping = loop,
                                  !.honor_shutdown = HonorFlag(kind),
                                  !.honor_breakcheck = HonorFlag(kind)]]
          /\ created' = IF thr THEN created ELSE Append(created, s)
    /\ UNCHANGED <<playEpoch, cutoffEpoch, stopEvent, activeSessions, stopPc,
                   stopPolls>>
    /\ AudioOthersUnchanged

\* _play_pcm_nonblocking: epoch = _next_epoch() (under _epoch_lock:
\* _play_epoch += 1; return it); session = _Session(epoch, label); the worker
\* thread is started and the call returns to its caller
new_session(s) ==
    /\ ses[s].pc = "called"
    /\ playEpoch' = playEpoch + 1
    /\ ses' = [ses EXCEPT ![s].pc = "open", ![s].epoch = playEpoch + 1]
    /\ created' = Append(created, s)
    /\ UNCHANGED <<cutoffEpoch, stopEvent, activeSessions, stopPc, stopPolls>>
    /\ AudioOthersUnchanged

\* _open_stream_robust: a stream, or RuntimeError when every strategy failed.
\* The worker registers stream and session and writes the zero block; the
\* blocking variant registers nothing.  A RuntimeError in the worker ends the
\* worker thread (finally: done.set()); in the blocking variant it reaches
\* the caller.
open_stream(s, ok) ==
    /\ ses[s].pc = "open"
    /\ IF ok
       THEN /\ ses' = [ses EXCEPT ![s].pc = "playing"]
            /\ activeSessions' = IF ses[s].threaded THEN activeSessions \cup {s}
                                 ELSE activeSessions
       ELSE /\ ses' = [ses EXCEPT ![s].pc = "done", ![s].why = "openfail",
                                  ![s].raised = ~ses[s].threaded]
            /\ UNCHANGED activeSessions
    /\ UNCHANGED <<playEpoch, cutoffEpoch, stopEvent, created, stopPc, stopPolls>>
    /\ AudioOthersUnchanged

\* the stop test of one pass of `while True:` -- the worker looks at its
\* epoch and at _stop_event, the blocking variant at _stop_event only
StopSeen(s) ==
    /\ ses[s].honor_shutdown
    /\ IF ses[s].threaded
       THEN ses[s].epoch <= cutoffEpoch \/ stopEvent
       ELSE stopEvent

\* one pass of `while True:`: BreakCheck, the stop test, else one block is
\* written; at the end of the source a looping clip starts over
play_block(s) ==
    /\ ses[s].pc = "playing"
    /\ LET why == IF ses[s].honor_breakcheck /\ BreakCheck THEN "break"
                  ELSE IF StopSeen(s) THEN "stop"
                  ELSE IF ses[s].pos + 1 >= SrcBlocks /\ ~ses[s].looping THEN "src"
                  ELSE "none"
           wrote == why \in {"src", "none"}
           end == IF ~wrote THEN ses[s].pos
                  ELSE IF ses[s].pos + 1 >= SrcBlocks
                       THEN (IF ses[s].looping THEN 0 ELSE SrcBlocks)
                       ELSE ses[s].pos + 1
       IN /\ ses' = [ses EXCEPT ![s].pos = end, ![s].why = why,
                                ![s].pc = IF why = "none" THEN "playing" ELSE "done"]
          /\ activeSessions' = IF why = "none" THEN activeSessions
                               ELSE activeSessions \ {s}
    /\ UNCHANGED <<playEpoch, cutoffEpoch, stopEvent, created, stopPc, stopPolls>>
    /\ AudioOthersUnchanged

\* the steps of playback s
Playback(s) ==
    \/ \E kind \in {"file", "tts"}, threaded \in BOOLEAN, looping \in BOOLEAN :
          play_audio(s, kind, threaded, looping)
    \/ new_session(s)
    \/ \E ok \in BOOLEAN : open_stream(s, ok)
    \/ play_block(s)

(* ----------------- control/audio_manager.py: stop_all_audio ------------ *)
\* with _epoch_lock: snapshot = _play_epoch; _cutoff_epoch = snapshot
stop_snapshot ==
    /\ stopPc = "idle"
    /\ cutoffEpoch' = playEpoch
    /\ ses' = [s \in Sessions |->
                  [ses[s] EXCEPT !.stopAsked = @ \/ ses[s].pc = "playing"]]
    /\ stopPc' = "set"
    /\ UNCHANGED <<playEpoch, stopEvent, activeSessions, created, stopPolls>>
    /\ AudioOthersUnchanged

\* _stop_event.set(); deadline = time.time() + timeout
stop_set ==
    /\ stopPc = "set"
    /\ stopEvent' = TRUE
    /\ stopPolls' = 0
    /\ stopPc' = "wait"
    /\ UNCHANGED <<playEpoch, cutoffEpoch, activeSessions, ses, created>>
    /\ AudioOthersUnchanged

\* mutant of stop_wait: the loop has no deadline
stop_wait_no_deadline ==
    /\ stopPc = "wait"
    /\ activeSessions = {}
    /\ stopPc' = "clear"
    /\ UNCHANGED <<playEpoch, cutoffEpoch, stopEvent, activeSessions, ses, created,
                   stopPolls>>
    /\ AudioOthersUnchanged

\* while time.time() < deadline: if no session is active: break; sleep(0.05)
stop_wait ==
    /\ stopPc = "wait"
    /\ IF activeSessions = {} \/ stopPolls >= MaxStopPolls
       THEN stopPc' = "clear" /\ UNCHANGED stopPolls
       ELSE stopPolls' = stopPolls + 1 /\ UNCHANGED stopPc
    /\ UNCHANGED <<playEpoch, cutoffEpoch, stopEvent, activeSessions, ses, created>>
    /\ AudioOthersUnchanged

\* _stop_event.clear(); return
stop_clear ==
    /\ stopPc = "clear"
    /\ stopEvent' = FALSE
    /\ stopPolls' = 0
    /\ stopPc' = "idle"
    /\ UNCHANGED <<playEpoch, cutoffEpoch, activeSessions, ses, created>>
    /\ AudioOthersUnchanged

stop_all_audio == stop_snapshot \/ stop_set \/ stop_wait \/ stop_clear

(* ------------- control/audio_manager.py: channel routing --------------- *)
Channels(C) == 0..(C - 1)
Samples == (0 - MaxSample)..MaxSample
Gains == 1..MaxGain

RouteOthersUnchanged ==
    /\ sdJustDone' = FALSE
    /\ UNCHANGED <<showVars, audioVars, sensorVars, moreVars>>

\* play_to_named_channel / play_to_all_channels up to _play_pcm on a device
\* with C output channels: a mono target's configured index is clamped to
\* the device (ch = min(idx, dev[1] - 1)); a broadcast passes index 0.
\* `sample` is one sample of the (mono) source.
play_to_channel(C, mode, idx, sample, gain) ==
    /\ route.pc \in {"idle", "written"}
    /\ route' = [pc |-> "resolved", have_channels |-> C, mode |-> mode,
                 idx |-> IF mode = "one" THEN Min(idx, C - 1) ELSE 0,
                 sample |-> sample, gain |-> gain, out |-> <<>>]
    /\ RouteOthersUnchanged

\* "Build output frame (B, have_channels)": the row written for one sample
\* x of block = pcm * gain
OutFrame(C, mode, idx, x) ==
    [c \in Channels(C) |->
        IF C <= 1 THEN x
        ELSE IF C = 2 THEN x
        ELSE IF mode = "all" THEN x
        ELSE IF c = Min(idx, C - 1) THEN x ELSE 0]

\* one pass of the write loop: block = pcm * gain, build the frame, write it
write_frame ==
    /\ route.pc = "resolved"
    /\ route' = [route EXCEPT
                    !.pc = "written",
                    !.out = OutFrame(route.have_channels, route.mode, route.idx,
                                     route.sample * route.gain)]
    /\ RouteOthersUnchanged

(* ------------------ control/remote_sensor_monitor.py ------------------- *)
SensorOthersUnchanged ==
    /\ sdJustDone' = FALSE
    /\ UNCHANGED <<showVars, audioVars, routeVars, moreVars>>

\* the readings a sensor may send as dist_mm, in tenths of a millimetre
RawTenths == {0 - 10, 0 - 4, 20, 300, 600}
RawDists == {Absent, Bad} \cup {Num(t) : t \in RawTenths}
RawAngles == {Absent, Num(900)}

\* the clock advances
tick ==
    /\ now < MaxTime
    /\ now' = now + 1
    /\ UNCHANGED <<shared, farMm, hist, gv, obs>>
    /\ SensorOthersUnchanged

\* _monitor_main: a line from the receiver is parsed and the record of its
\* sensor replaced, stamped with the host clock
\* (the record built, the write to the table, and the step of a reader that
\* is given a well-formed line)
tof_record(seq, dist, angle) ==
    [t_host_ms |-> now, seq |-> seq, dist_mm |-> dist, angle |-> angle,
     btn |-> Absent, pressed |-> Absent]

tof_write(sid, seq, dist, angle) ==
    shared' = [shared EXCEPT ![sid] = tof_record(seq, dist, angle)]

rx_tof(sid, seq, dist, angle) ==
    /\ tof_write(sid, seq, dist, angle)
    /\ UNCHANGED <<now, farMm, hist, gv, obs>>
    /\ SensorOthersUnchanged

\* a well-formed line of a distance sensor whose sequence number is not followed
rx(sid, dist, angle) == rx_tof(sid, 0, dist, angle)

\* FAR_DISTANCE_MM = max(1, int(value))
set_far_distance_mm(value) ==
    /\ farMm' = Max(1, value)
    /\ UNCHANGED <<now, shared, hist, gv, obs>>
    /\ SensorOthersUnchanged

\* Python's round() of a number given in tenths: to the nearest integer,
\* halves to the even one
Round(t) ==
    LET q == t \div 10
        r == t % 10
    IN IF r < 5 THEN q
       ELSE IF r > 5 THEN q + 1
       ELSE IF q % 2 = 0 THEN q ELSE q + 1

\* _coerce_dist(val): None and unparseable values give FAR_DISTANCE_MM;
\* v = int(round(float(val))); FAR_DISTANCE_MM if v < 0 else v
coerce_dist(val, far) ==
    IF val.tag # "num" THEN far
    ELSE LET v == Round(val.tenths)
         IN IF v < 0 THEN far ELSE v

\* vals.get(key, ...) of a record
ValOf(rec, key) == IF key = "dist_mm" THEN rec.dist_mm ELSE rec.angle

\* mutant of get_value: the age test is `>=` instead of `>`
get_value_strict_age(sid, key, max_age_ms) ==
    /\ LET rec == shared[sid]
           value == IF rec = NoRec THEN Default
                    ELSE IF max_age_ms # NoLimit /\ (now - rec.t_host_ms) >= max_age_ms
                         THEN Default
                    ELSE IF key = "dist_mm"
                         THEN Num(10 * coerce_dist(rec.dist_mm, farMm))
                    ELSE IF ValOf(rec, key) = Absent THEN Default
                    ELSE ValOf(rec, key)
       IN gv' = [called |-> TRUE, sid |-> sid, key |-> key,
                 max_age_ms |-> max_age_ms, value |-> value]
    /\ UNCHANGED <<now, shared, farMm, hist, obs>>
    /\ SensorOthersUnchanged

\* get_value(sensor_id, key, default, max_age_ms)
get_value(sid, key, max_age_ms) ==
    /\ LET rec == shared[sid]
           value == IF rec = NoRec THEN Default
                    ELSE IF max_age_ms # NoLimit /\ (now - rec.t_host_ms) > max_age_ms
                         THEN Default
                    ELSE IF key = "dist_mm"
                         THEN Num(10 * coerce_dist(rec.dist_mm, farMm))
                    ELSE IF ValOf(rec, key) = Absent THEN Default
                    ELSE ValOf(rec, key)
       IN gv' = [called |-> TRUE, sid |-> sid, key |-> key,
                 max_age_ms |-> max_age_ms, value |-> value]
    /\ UNCHANGED <<now, shared, farMm, hist, obs>>
    /\ SensorOthersUnchanged

\* the calls made: the keys asked for and the ages allowed
KeyInputs == {"dist_mm", "angle"}
AgeInputs == {NoLimit, 1, 2}

get_value_call ==
    \E sid \in SensorIds, key \in KeyInputs, max_age_ms \in AgeInputs :
       get_value(sid, key, max_age_ms)

\* while q and (now - q[0][0]) > window_ms: q.popleft()
\* deque(maxlen=256): appending to a full deque drops its oldest entry
HIST_MAXLEN == 256
deque_append(q, x) ==
    IF Len(q) >= HIST_MAXLEN THEN Append(Tail(q), x) ELSE Append(q, x)

\* while q and (now - q[0][0]) > window_ms: q.popleft()
RECURSIVE Evict(_, _, _)
Evict(q, t, window_ms) ==
    IF q # <<>> /\ (t - Head(q).t) > window_ms
    THEN Evict(Tail(q), t, window_ms)
    ELSE q

\* _hist_update(sid, window_ms): the latest record's sample (_get_dist_sample:
\* its host time and its coerced distance) is appended unless its time is
\* the one appended last, then samples older than the window are evicted
hist_update(sid, window_ms) ==
    LET h == hist[sid]
        rec == shared[sid]
        h1 == IF rec # NoRec /\ rec.t_host_ms # h.last_ts
              THEN [h EXCEPT !.q = deque_append(@, [t |-> rec.t_host_ms,
                                              d |-> coerce_dist(rec.dist_mm, farMm)]),
                             !.last_ts = rec.t_host_ms]
              ELSE h
    IN [h1 EXCEPT !.q = Evict(@, now, window_ms)]

\* for (_, d) in reversed(q): count d < block_mm up to the first other one
RECURSIVE Consec(_, _)
Consec(q, block_mm) ==
    IF q = <<>> THEN 0
    ELSE IF q[Len(q)].d < block_mm
         THEN 1 + Consec(SubSeq(q, 1, Len(q) - 1), block_mm)
         ELSE 0

\* mutant of Latch: the latch is released above block_mm, not above clear_mm
Latch_no_band(h, block_mm, clr, min_consecutive) ==
    IF Consec(h.q, block_mm) >= Max(1, min_consecutive) THEN TRUE
    ELSE IF h.last /\ h.q # <<>> /\ h.q[Len(h.q)].d >= block_mm THEN FALSE
    ELSE h.last

\* the value obstructed leaves in h['last'] and returns
Latch(h, block_mm, clr, min_consecutive) ==
    IF Consec(h.q, block_mm) >= Max(1, min_consecutive) THEN TRUE
    ELSE IF h.last /\ h.q # <<>> /\ h.q[Len(h.q)].d > clr THEN FALSE
    ELSE h.last

\* if clear_mm is None: clear_mm = block_mm + 50
ClearOf(block_mm, clear_mm) ==
    IF clear_mm = NoClear THEN block_mm + 50 ELSE clear_mm

\* obstructed(sid, block_mm, clear_mm, window_ms, min_consecutive)
obstructed(sid, block_mm, clear_mm, window_ms, min_consecutive) ==
    /\ LET h == hist_update(sid, window_ms)
           clr == ClearOf(block_mm, clear_mm)
           ret == Latch(h, block_mm, clr, min_consecutive)
       IN /\ hist' = [hist EXCEPT ![sid] = [h EXCEPT !.last = ret]]
          /\ obs' = [called |-> TRUE, sid |-> sid, block_mm |-> block_mm,
                     clear_mm |-> clr, ret |-> ret]
    /\ UNCHANGED <<now, shared, farMm, gv>>
    /\ SensorOthersUnchanged

\* the calls made: the thresholds, windows and counts tried
BlockInputs == {5}
ClearInputs == {NoClear, 1}
WindowInputs == {1, 2}
MinConsecInputs == {1, 2}

obstructed_call ==
    \E sid \in SensorIds, block_mm \in BlockInputs, clear_mm \in ClearInputs,
       window_ms \in WindowInputs, min_consecutive \in MinConsecInputs :
       obstructed(sid, block_mm, clear_mm, window_ms, min_consecutive)

(* ------------- _hist_update, statement by statement, per thread -------- *)
\* _hist_update takes no lock: each thread reads the clock and the sample,
\* tests the sample's time against last_ts, appends and sets last_ts, then
\* evicts; another thread may run between any two of these
HistCallOthersUnchanged ==
    /\ sdJustDone' = FALSE
    /\ UNCHANGED <<showVars, libVarsButHist>>
    /\ UNCHANGED <<now, shared, farMm, gv, obs>>

\* now = _now_ms_local(); sample = _get_dist_sample(sid)
hu_begin(c, sid, window_ms) ==
    /\ hu[c].pc = "idle"
    /\ LET rec == shared[sid]
       IN hu' = [hu EXCEPT ![c] =
                    [pc |-> "test", sid |-> sid, window_ms |-> window_ms,
                     now0 |-> now, has |-> rec # NoRec,
                     t |-> rec.t_host_ms,
                     d |-> coerce_dist(rec.dist_mm, farMm)]]
    /\ UNCHANGED hist
    /\ HistCallOthersUnchanged

\* if sample: if t_ms != h['last_ts']:
hu_test(c) ==
    /\ hu[c].pc = "test"
    /\ hu' = [hu EXCEPT ![c].pc =
                 IF hu[c].has /\ hu[c].t # hist[hu[c].sid].last_ts
                 THEN "append" ELSE "evict"]
    /\ UNCHANGED hist
    /\ HistCallOthersUnchanged

\* h['q'].append((t_ms, d)); h['last_ts'] = t_ms
hu_append(c) ==
    /\ hu[c].pc = "append"
    /\ hist' = [hist EXCEPT ![hu[c].sid] =
                   [@ EXCEPT !.q = deque_append(@, [t |-> hu[c].t, d |-> hu[c].d]),
                             !.last_ts = hu[c].t]]
    /\ hu' = [hu EXCEPT ![c].pc = "evict"]
    /\ HistCallOthersUnchanged

\* the eviction loop, and the return to the caller
hu_evict(c) ==
    /\ hu[c].pc = "evict"
    /\ hist' = [hist EXCEPT ![hu[c].sid].q = Evict(@, hu[c].now0, hu[c].window_ms)]
    /\ hu' = [hu EXCEPT ![c].pc = "idle"]
    /\ HistCallOthersUnchanged

hist_update_step(c) ==
    \/ \E sid \in TofIds, window_ms \in WindowInputs : hu_begin(c, sid, window_ms)
    \/ hu_test(c)
    \/ hu_append(c)
    \/ hu_evict(c)

(* ------------- the button branch of the reader, the other calls -------- *)
ReaderOthersUnchanged ==
    /\ sdJustDone' = FALSE
    /\ UNCHANGED <<showVars, libVarsButReader>>

\* _btnq = mp.Queue(maxsize=256)
BTNQ_MAXSIZE == 256

\* btnq.put_nowait(edge) inside try / except Exception: pass
put_nowait(q, edge) == IF Len(q) < BTNQ_MAXSIZE THEN Append(q, edge) ELSE q

button_record(btn_n, pressed, seq) ==
    [t_host_ms |-> now, seq |-> seq, dist_mm |-> Absent, angle |-> Absent,
     btn |-> Num(10 * btn_n), pressed |-> Bool(pressed)]

\* _monitor_main, data.type == "button" with a non-empty id: the record of
\* the id is replaced, then the edge is put on the button queue
button_write(sid, btn_n, pressed, seq) ==
    /\ btnLines < MaxBtnLines
    /\ btnLines' = btnLines + 1
    /\ shared' = [shared EXCEPT ![sid] = button_record(btn_n, pressed, seq)]
    /\ btnq' = put_nowait(btnq, [id |-> sid, btn |-> btn_n, pressed |-> pressed,
                                 seq |-> seq, t_host_ms |-> now])

rx_button(sid, btn_n, pressed, seq) ==
    /\ button_write(sid, btn_n, pressed, seq)
    /\ UNCHANGED <<now, farMm, hist, gv, obs, bp, api>>
    /\ ReaderOthersUnchanged

\* button_pop(timeout): the oldest edge, or None when the queue is empty
button_pop ==
    /\ bp' = [called |-> TRUE, ret |-> IF btnq = <<>> THEN NoEdge ELSE Head(btnq)]
    /\ btnq' = IF btnq = <<>> THEN btnq ELSE Tail(btnq)
    /\ UNCHANGED <<now, shared, farMm, hist, gv, obs, btnLines, api>>
    /\ ReaderOthersUnchanged

\* get(sensor_id): `if not _shared: return None`, else _shared.get(sensor_id)
TableEmpty == \A s \in SensorIds : shared[s] = NoRec
get(sid) == IF TableEmpty THEN NoRec ELSE shared[sid]

get_call(sid) ==
    /\ api' = [fn |-> "get", sid |-> sid, ret |-> get(sid)]
    /\ UNCHANGED <<now, shared, farMm, hist, gv, obs, btnq, btnLines, bp>>
    /\ ReaderOthersUnchanged

\* vals.sort()
RECURSIVE Insert(_, _)
Insert(sorted, x) ==
    IF sorted = <<>> THEN <<x>>
    ELSE IF x <= Head(sorted) THEN <<x>> \o sorted
    ELSE <<Head(sorted)>> \o Insert(Tail(sorted), x)

RECURSIVE Sort(_)
Sort(vals) == IF vals = <<>> THEN <<>> ELSE Insert(Sort(Tail(vals)), Head(vals))

RECURSIVE Sum(_)
Sum(vals) == IF vals = <<>> THEN 0 ELSE Head(vals) + Sum(Tail(vals))

\* the value get_distance_filtered returns for the history q: None below
\* min_samples, else the mean (a quotient, kept as sum and count) or the
\* median (in tenths: the mean of the two middle values may end in .5)
Filtered(q, min_samples, method) ==
    LET vals == [i \in 1..Len(q) |-> q[i].d]
        n == Len(vals)
        sorted == Sort(vals)
        mid == n \div 2
    IN IF n < Max(1, min_samples) THEN Absent
       ELSE IF method = "mean" THEN [tag |-> "ratio", tenths |-> Sum(vals), over |-> n]
       ELSE IF n % 2 = 1 THEN Num(10 * sorted[mid + 1])
       ELSE Num(5 * (sorted[mid] + sorted[mid + 1]))

\* get_distance_filtered(sid, window_ms, min_samples, method)
get_distance_filtered(sid, window_ms, min_samples, method) ==
    /\ LET h == hist_update(sid, window_ms)
       IN /\ hist' = [hist EXCEPT ![sid] = h]
          /\ api' = [fn |-> "get_distance_filtered", sid |-> sid,
                     ret |-> Filtered(h.q, min_samples, method)]
    /\ UNCHANGED <<now, shared, farMm, gv, obs, btnq, btnLines, bp>>
    /\ ReaderOthersUnchanged

\* mutant of get_button_value: `if not rec: return None` is left out, and
\* rec.get fails on None
get_button_value_no_guard(sid, btn_num) ==
    /\ LET rec == get(sid)
           ret == IF rec = NoRec THEN Raised
                  ELSE IF btn_num = NoBtn THEN rec.pressed
                  ELSE IF rec.btn = Num(10 * btn_num)
                       THEN (IF rec.pressed = Absent THEN Bool(FALSE) ELSE rec.pressed)
                  ELSE Absent
       IN api' = [fn |-> "get_button_value", sid |-> sid, ret |-> ret]
    /\ UNCHANGED <<now, shared, farMm, hist, gv, obs, btnq, btnLines, bp>>
    /\ ReaderOthersUnchanged

\* get_button_value(device_id, btn_num)
get_button_value(sid, btn_num) ==
    /\ LET rec == get(sid)
           ret == IF rec = NoRec THEN Absent
                  ELSE IF btn_num = NoBtn THEN rec.pressed
                  ELSE IF rec.btn = Num(10 * btn_num)
                       THEN (IF rec.pressed = Absent THEN Bool(FALSE) ELSE rec.pressed)
                  ELSE Absent
       IN api' = [fn |-> "get_button_value", sid |-> sid, ret |-> ret]
    /\ UNCHANGED <<now, shared, farMm, hist, gv, obs, btnq, btnLines, bp>>
    /\ ReaderOthersUnchanged

\* the calls made: the sample counts, methods and button numbers tried
MinSamplesInputs == {0, 2}
MethodInputs == {"median", "mean"}
BtnInputs == {NoBtn, 1}

api_call ==
    \/ \E sid \in SensorIds : get_call(sid)
    \/ \E sid \in SensorIds, min_samples \in MinSamplesInputs, method \in MethodInputs :
          get_distance_filtered(sid, 2, min_samples, method)
    \/ \E sid \in SensorIds, btn_num \in BtnInputs : get_button_value(sid, btn_num)

(* ------------------- the reader, line by line -------------------------- *)
\* an inbound line: whether json.loads accepts it, the branch its data.type
\* selects, its data.id ("" when missing or empty) and its data.seq
BadJson == [json |-> "bad", type |-> "tof", id |-> "", seq |-> Absent]
Lines ==
    {BadJson} \cup
    [json : {"ok"}, type : {"tof"}, id : {""} \cup TofIds,
     seq : {Absent, Num(10), Num(25), Bad}] \cup
    [json : {"ok"}, type : {"button"}, id : {"", "BTN1"},
     seq : {Absent, Num(10), Num(25), Bad}]

\* int(data.get("seq", 0)): the default when the key is missing, a number
\* truncated, an exception for anything else
IntRaises(v) == v = Bad
IntOf(v) == IF v.tag = "num" THEN v.tenths \div 10 ELSE 0

\* mutant of Parsed: a sequence number that is no number is taken as 0
Parsed_any_seq(line) == line.json = "ok" /\ line.id # ""

\* the line gets as far as the write to the table: json.loads succeeds, the
\* id is not empty (`if not sid: continue`) and no conversion raises (the
\* enclosing `except Exception: pass` drops the line)
Parsed(line) == line.json = "ok" /\ line.id # "" /\ ~IntRaises(line.seq)

\* the distance every sensor line of this reader carries, the button pressed
LineDist == Num(20)

\* _monitor_main, one line of the buffer
reader_line(line) ==
    /\ lastLine' = line
    /\ lastAt' = now
    /\ IF ~Parsed(line)
       THEN UNCHANGED <<shared, btnq, btnLines>>
       ELSE IF line.type = "button"
       THEN button_write(line.id, 1, TRUE, IntOf(line.seq))
       ELSE tof_write(line.id, IntOf(line.seq), LineDist, Absent)
            /\ UNCHANGED <<btnq, btnLines>>
    /\ UNCHANGED <<now, farMm, hist, gv, obs, bp, api>>
    /\ sdJustDone' = FALSE
    /\ UNCHANGED <<showVars, libVarsButLines>>

(* --------------------------- specification ----------------------------- *)
\* the supervisor, the shutdown detector and the operator's mode requests
Next ==
    \/ Supervisor
    \/ Detector
    \/ \E s \in {"EmergencyShutoff", "SoftShutdown"} : op_mode(s)
    \/ op_toggle_lights

Spec == Init /\ [][Next]_vars

\* Spec with its two threads scheduled again and again, and an operator who
\* answers the detector's input() with SAFE sooner or later
SpecSupervised ==
    /\ Spec
    /\ WF_vars(Supervisor)
    /\ WF_vars(Detector)

\* one ONLINE period with show starts, demos and the room threads they
\* start: boot, operator requests, StartHouse; no shutdown detector
NextHouse ==
    \/ sup_top
    \/ sup_boot_shutdown_relays
    \/ sup_boot_shutdown_lights
    \/ sup_boot_services
    \/ sup_spawn_doors
    \/ sup_set_online
    \/ sup_lights_on
    \/ sup_start_detector
    \/ sup_watch_online
    \/ \E s \in {"EmergencyShutoff", "SoftShutdown"} : op_mode(s)
    \/ StartHouse
    \/ \E t \in SHThreads : op_start(t)
    \/ \E room \in Rooms : op_demo(room)
    \/ \E room \in Rooms : op_demo_again(room)
    \/ \E r \in Rooms : room_return(r)
    \/ \E r \in Rooms : extra_return(r)

SpecHouse == Init /\ [][NextHouse]_vars

\* one ONLINE period with the door tasks: boot, the operator's mode and door
\* requests, scene scripts setting door targets, and every door step
NextDoor ==
    \/ sup_top
    \/ sup_boot_shutdown_relays
    \/ sup_boot_shutdown_lights
    \/ sup_boot_services
    \/ sup_spawn_doors
    \/ sup_set_online
    \/ sup_lights_on
    \/ sup_start_detector
    \/ sup_watch_online
    \/ \E s \in {"EmergencyShutoff", "SoftShutdown"} : op_mode(s)
    \/ \E id \in Doors, state \in {"OPEN", "CLOSED"} : op_door(id, state)
    \/ \E id \in Doors, state \in {"OPEN", "CLOSED", "CLOPEN"} : scene_door(id, state)
    \/ \E d \in Doors : DoorStep(d)

\* every thread that can run is scheduled again and again
SpecDoor ==
    /\ Init
    /\ [][NextDoor]_vars
    /\ \A d \in Doors : WF_vars(DoorStep(d))

\* SpecDoor with time passing: a door task that keeps polling in its monitor
\* window sooner or later makes a test at which the window is over
SpecDoorTimed ==
    /\ SpecDoor
    /\ \A d \in Doors :
          SF_vars(\E blocked \in SensorAnswers :
                      door_monitor(d, FALSE, blocked, TRUE, TRUE))

\* reboot cycles with the door threads: the supervisor and the detector in
\* full, mode requests, close requests, and every step of the door tasks
NextRespawn ==
    \/ Supervisor
    \/ Detector
    \/ \E s \in {"EmergencyShutoff", "SoftShutdown"} : op_mode(s)
    \/ \E id \in Doors : op_door(id, "CLOSED")
    \/ \E id \in Doors : scene_door(id, "CLOPEN")
    \/ \E d \in Doors : DoorStep(d)

SpecRespawn ==
    /\ Init
    /\ [][NextRespawn]_vars

\* one ONLINE period with demos and the room threads followed step by step:
\* boot, the operator's mode requests and demo buttons, every room step
NextRoom ==
    \/ sup_top
    \/ sup_boot_shutdown_relays
    \/ sup_boot_shutdown_lights
    \/ sup_boot_services
    \/ sup_spawn_doors
    \/ sup_set_online
    \/ sup_lights_on
    \/ sup_start_detector
    \/ sup_watch_online
    \/ \E s \in {"EmergencyShutoff", "SoftShutdown"} : op_mode(s)
    \/ \E room \in Rooms : op_demo(room)
    \/ gangway_run
    \/ treasureRoom_run
    \/ cargoHold_run
    \/ quarterdeck_run
    \/ graveyard_run

\* every room thread is scheduled again and again, and a guest sooner or
\* later trips the sensor or presses the button a room is waiting for
SpecRoom ==
    /\ Init
    /\ [][NextRoom]_vars
    /\ \A r \in Rooms : WF_vars(RoomStep(r))
    /\ WF_vars(gangway_wait(TRUE, FALSE))
    /\ WF_vars(cargoHold_wait(TRUE))
    /\ WF_vars(quarterdeck_wait(TRUE))

(* --------------- control/dimmer_controller.py: the flicker -------------- *)
libVarsButFlicker == <<audioVars, routeVars, sensorVars, histCallVars, readerVars, lineVars, hwVars, tagVars, failVars, instVars, backoffVars>>
FlickerOthersUnchanged ==
    /\ sdJustDone' = FALSE
    /\ UNCHANGED libVarsButFlicker
    /\ UNCHANGED <<houseVars, doorVars, pins, supPc, surfacesUp, detVars, shPc,
                   roomVars, histVars>>

\* dim(value): pct = max(0.0, min(100.0, float(value)))
dim_pct(value) == IF value < 0 THEN 0 ELSE IF value > 100 THEN 100 ELSE value

\* the (min_intensity, max_intensity) pairs of the calls in rooms/graveyard.py
FlickerLevels == {<<20, 80>>, <<20, 100>>}

\* stop_flicker(join=True): the registered local_stop, if any, is set, the
\* thread is waited for up to `timeout`, and both globals become None
stop_flicker(f) ==
    IF flicker_stop_evt = 0 THEN f
    ELSE [f EXCEPT ![flicker_stop_evt].stop = TRUE]

\* mutant of stop_flicker: a starting flicker leaves the running one alone
stop_flicker_keeps_running(f) == f

\* dimmer_flicker(duration, min_intensity, max_intensity, ..., threaded=True)
\* called for worker w: stop_flicker(join=True), then local_stop is
\* registered in _flicker_stop_evt and the thread is started
dimmer_flicker(w, duration, levels) ==
    /\ serOpen
    /\ fl[w].pc = "none"
    /\ fl' = [stop_flicker(fl) EXCEPT ![w] =
                 [pc |-> "run", stop |-> FALSE, left |-> duration,
                  lo |-> dim_pct(levels[1]), hi |-> dim_pct(levels[2])]]
    /\ flicker_stop_evt' = w
    /\ UNCHANGED dimPct
    /\ FlickerOthersUnchanged

\* _should_stop_effect(local_stop); _global_stop_evt is never set by the show
should_stop_effect(w) == fl[w].stop \/ BreakCheck

\* one pass of _run's loop: the duration test, _should_stop_effect, then a
\* ramp to a target in [min_intensity, max_intensity] whose last dim() is the
\* target (the ends of the range stand for the range)
flicker_run(w) ==
    /\ fl[w].pc = "run"
    /\ IF fl[w].left = 0 \/ should_stop_effect(w)
       THEN /\ fl' = [fl EXCEPT ![w].pc = "done"]
            /\ UNCHANGED dimPct
       ELSE /\ \E target \in {fl[w].lo, fl[w].hi} : dimPct' = dim_pct(target)
            /\ fl' = [fl EXCEPT ![w].left = @ - 1]
    /\ UNCHANGED flicker_stop_evt
    /\ FlickerOthersUnchanged

\* the graveyard's scene starts flickers while a show runs
NextFlicker ==
    \/ sup_top
    \/ sup_boot_shutdown_relays
    \/ sup_boot_shutdown_lights
    \/ sup_boot_services
    \/ sup_spawn_doors
    \/ sup_set_online
    \/ sup_lights_on
    \/ sup_start_detector
    \/ sup_watch_online
    \/ detPc # "none" /\ op_mode("SoftShutdown")
    \/ detPc # "none" /\ op_demo("graveyard")
    \/ \E w \in Workers, levels \in FlickerLevels :
           detPc # "none" /\ dimmer_flicker(w, MaxSegs, levels)
    \/ \E w \in Workers : flicker_run(w)

SpecFlicker ==
    /\ Init
    /\ [][NextFlicker]_vars

\* the rooms under a show in which calls of the scene scripts may raise
NextFail ==
    \/ NextRoom
    \/ dimmer4_fire_run
    \/ \E r \in Rooms : room_raise(r)

SpecFail ==
    /\ Init
    /\ [][NextFail]_vars

\* the audio manager under a show: boot, and once boot is over mode requests
\* and a demo (which make BreakCheck false and true), playbacks and
\* stop_all_audio calls
NextAudio ==
    \/ sup_top
    \/ sup_boot_shutdown_relays
    \/ sup_boot_shutdown_lights
    \/ sup_boot_services
    \/ sup_spawn_doors
    \/ sup_set_online
    \/ sup_lights_on
    \/ sup_start_detector
    \/ sup_watch_online
    \/ detPc # "none" /\ op_mode("SoftShutdown")
    \/ detPc # "none" /\ op_demo("treasureRoom")
    \/ detPc # "none" /\ \E s \in Sessions : Playback(s)
    \/ detPc # "none" /\ stop_all_audio

\* the thread inside stop_all_audio keeps running; a playback may hang
SpecAudio ==
    /\ Init
    /\ [][NextAudio]_vars
    /\ WF_vars(stop_all_audio)

\* routing requests on devices of 1..MaxChannels channels
NextRoute ==
    \/ \E C \in 1..MaxChannels, mode \in {"one", "all"}, idx \in Channels(MaxChannels),
          sample \in Samples, gain \in Gains :
          play_to_channel(C, mode, idx, sample, gain)
    \/ write_frame

SpecRoute == Init /\ [][NextRoute]_vars

\* a sensor reporting, FAR_DISTANCE_MM being set, and get_value calls
NextSensor ==
    \/ tick
    \/ \E sid \in TofIds, dist \in RawDists, angle \in RawAngles : rx(sid, dist, angle)
    \/ \E value \in {0, FAR_DISTANCE_MM} : set_far_distance_mm(value)
    \/ get_value_call

SpecSensor == Init /\ [][NextSensor]_vars

\* a sensor reporting distances, and obstructed calls
NextObstructed ==
    \/ tick
    \/ \E sid \in TofIds, dist \in RawDists : rx(sid, dist, Absent)
    \/ obstructed_call

SpecObstructed == Init /\ [][NextObstructed]_vars

\* one sensor reporting, and two threads inside _hist_update
HistDists == {Num(20)}
NextHist ==
    \/ tick
    \/ \E sid \in TofIds, dist \in HistDists : rx(sid, dist, Absent)
    \/ \E c \in Callers : hist_update_step(c)

SpecHist == Init /\ [][NextHist]_vars

\* the calls of the sensor API while a distance sensor and a button report:
\* each sensor is missing until its first line
NextApi ==
    \/ tick
    \/ \E sid \in TofIds, dist \in HistDists : rx(sid, dist, Absent)
    \/ btnLines < FewBtnLines /\ \E pressed \in BOOLEAN : rx_button("BTN1", 1, pressed, 1)
    \/ api_call
    \/ \E sid \in SensorIds : get_value(sid, "dist_mm", NoLimit)
    \/ \E sid \in SensorIds : obstructed(sid, 5, NoClear, 2, 1)

SpecApi == Init /\ [][NextApi]_vars

\* a button sending press and release edges with rising sequence numbers,
\* and a consumer popping the button queue
NextButton ==
    \/ rx_button("BTN1", 1, btnLines % 2 = 0, btnLines + 1)
    \/ button_pop

SpecButton == Init /\ [][NextButton]_vars

\* the reader fed with well-formed and malformed lines of a distance sensor
\* and a button, while the clock advances
NextReader ==
    \/ tick
    \/ \E line \in Lines :
          /\ line.type = "button" => btnLines < FewBtnLines
          /\ reader_line(line)

SpecReader == Init /\ [][NextReader]_vars

\* boot with any of the boards and the dimmer present or missing, then the
\* shutdown detector and the operator's requests
NextBoot ==
    \/ \E m1 \in BOOLEAN, m2 \in BOOLEAN, dimmer \in BOOLEAN : sup_boot(m1, m2, dimmer)
    \/ sup_boot_shutdown_relays
    \/ sup_boot_shutdown_lights
    \/ sup_boot_services
    \/ sup_spawn_doors
    \/ sup_set_online
    \/ sup_lights_on
    \/ sup_start_detector
    \/ sup_watch_online
    \/ sup_wait_reboot
    \/ Detector
    \/ \E s \in {"EmergencyShutoff", "SoftShutdown"} : op_mode(s)
    \/ op_toggle_lights

SpecBoot == Init /\ [][NextBoot]_vars

(* ------- control/remote_sensor_monitor.py: the reconnect backoff -------- *)
BackoffOthersUnchanged ==
    /\ sdJustDone' = FALSE
    /\ UNCHANGED <<showVars, libVarsButBackoff>>

\* ser = _open_serial(port, baud): the port opens, or the call raises
mon_open(ok) ==
    /\ monPc = "open"
    /\ ok \/ totalFails < MaxFails
    /\ monPc' = IF ok THEN "connected" ELSE "except"
    /\ consecFails' = IF ok THEN 0 ELSE consecFails
    /\ UNCHANGED <<backoff, slept, totalFails>>
    /\ BackoffOthersUnchanged

\* the inner `while True` is left by an exception only: a failed read, or
\* raise RuntimeError("Serial silent; reconnecting")
mon_loop_raises ==
    /\ monPc = "connected"
    /\ totalFails < MaxFails
    /\ monPc' = "except"
    /\ UNCHANGED <<backoff, slept, consecFails, totalFails>>
    /\ BackoffOthersUnchanged

\* except Exception: ser.close(); time.sleep(backoff);
\* backoff = min(backoff * 2, BACKOFF_MAX_S); continue
\* (the try's `else: backoff = BACKOFF_START_S` runs only when the try body
\* ends without an exception, which the inner loop never does)
mon_except ==
    /\ monPc = "except"
    /\ slept' = backoff
    /\ backoff' = Min(backoff * 2, BACKOFF_MAX_S)
    /\ consecFails' = consecFails + 1
    /\ totalFails' = totalFails + 1
    /\ monPc' = "open"
    /\ BackoffOthersUnchanged

\* the reconnect loop of the reader process
NextBackoff ==
    \/ \E ok \in BOOLEAN : mon_open(ok)
    \/ mon_loop_raises
    \/ mon_except

SpecBackoff == Init /\ [][NextBackoff]_vars

(* ------------------------------ claims --------------------------------- *)
ModeChanged == systemState' # systemState
RebootSet == systemState' = "REBOOT" /\ systemState # "REBOOT"

\* C1: door fail-open.  A door task that has ended has commanded its solenoid
\* open (last write 1) and left DoorState OPEN; and from every position (idle,
\* CLOPEN hold, pre-close delay, close monitor, obstruction retry) a running
\* door task reaches that end once SystemState is not ONLINE, unless
\* SystemState is ONLINE again before it polls (checked under SpecDoor).
DoorAlive(d) == doorPc[d] \notin {"none", "done"}
DoorOpened(d) ==
    /\ doorPc[d] = "done"
    /\ pins[DOOR_SOLENOID_PINS[d]] = 1
    /\ DoorState[d] = "OPEN"

C2_EmergencyNeedsSafe ==
    [][(RebootSet /\ emergencyReq) => safeRead']_vars

\* C3: when shutdown() has completed (its final house-lights-on step
\* included), HouseActive is false, the house lights are commanded on and the
\* last value written to every relay pin the routine drives is 1.
C3_ShutdownLeavesRelaysInactive ==
    sdJustDone =>
        /\ ~HouseActive
        /\ houseLights
        /\ pins[HouseLightsPin] = 1
        /\ \A q \in ShutdownPins : pins[q] = 1

\* C4: in one shutdown the detector first returns from stop_all_audio, then
\* runs shutdown(), then (soft and emergency) flashes the house lights three
\* times, and only then sets REBOOT; nothing else sets REBOOT.
C4_ShutdownOrdering ==
    [][ /\ (shutdownRan' => audioStopped')
        /\ (detFlash' > 0 => shutdownRan')
        /\ RebootSet =>
              /\ audioStopped /\ shutdownRan
              /\ (detBranch \in {"S", "E"} => detFlash = FlashCount)
      ]_vars

C4_Witness ==
    /\ systemState = "REBOOT" /\ detPc = "done" /\ detBranch = "S"
    /\ audioStopped /\ shutdownRan /\ detFlash = FlashCount

\* C5: the persistent services are initialised at most once (only while Boot
\* is true); in every later cycle the supervisor spawns the door tasks again
\* and sets ONLINE with Boot still false and no second initialisation.
C5_PersistentInitOnce ==
    /\ persistInits <= 1
    /\ (persistInits = 0 => Boot)
    /\ (cycles >= 1 => persistInits = 1 /\ ~Boot /\ surfacesUp)
    /\ doorSpawns >= cycles
    /\ (supPc \in {"lights_on", "start_detector", "watch_online"} /\ cycles < MaxCycles
            => doorSpawns = cycles)

C5_Witness ==
    /\ cycles = MaxCycles /\ systemState = "ONLINE" /\ supPc = "watch_online"
    /\ persistInits = 1 /\ \A d \in Doors : doorPc[d] = "start"

\* C6: every change of SystemState is a step of the cycle
\* OFFLINE -> ONLINE -> {SoftShutdown, EmergencyShutoff} -> REBOOT -> ONLINE.
CycleSteps ==
    {<<"OFFLINE", "ONLINE">>, <<"ONLINE", "SoftShutdown">>,
     <<"ONLINE", "EmergencyShutoff">>, <<"SoftShutdown", "REBOOT">>,
     <<"EmergencyShutoff", "REBOOT">>, <<"REBOOT", "ONLINE">>}

C6_ModeCycle ==
    [][ModeChanged => <<systemState, systemState'>> \in CycleSteps]_vars

\* C7: in every reachable state HouseActive implies SystemState = ONLINE
\* (checked under SpecHouse).
C7_ActiveImpliesOnline == HouseActive => systemState = "ONLINE"

\* C8: StartHouse goes on only if HouseActive is false and SystemState is
\* ONLINE when it tests them; it then sets HouseActive, sets both entry-door
\* targets to CLOSED, turns the house lights off, starts each of the five room
\* threads once, and waits until BreakCheck is true.  Otherwise it ends and
\* changes none of these (checked under SpecHouse).
C8_StartHouse ==
    [][\A t \in SHThreads :
        /\ (shPc[t] = "check" /\ shPc'[t] # "check") =>
              IF ~HouseActive /\ systemState = "ONLINE"
              THEN shPc'[t] = "launch"
              ELSE /\ shPc'[t] = "idle"
                   /\ UNCHANGED <<HouseActive, TargetDoorState, houseLights, pins,
                                  roomPc>>
        /\ (shPc'[t] = "launch" /\ shPc[t] # "launch") => shPc[t] = "check"
        /\ (shPc[t] = "launch" /\ shPc'[t] # "launch") =>
              /\ shPc'[t] = "wait"
              /\ HouseActive'
              /\ \A d \in Doors : TargetDoorState'[d] = "CLOSED"
              /\ ~houseLights' /\ pins'[HouseLightsPin] = 0
              /\ \A r \in Rooms :
                    IF roomPc[r] = "idle"
                    THEN roomPc'[r] = "start" /\ extraTasks'[r] = extraTasks[r]
                    ELSE roomPc'[r] = roomPc[r] /\ extraTasks'[r] = extraTasks[r] + 1
        /\ (shPc[t] = "wait" /\ shPc'[t] # "wait") => BreakCheck
      ]_vars

C8_Witness ==
    \E t \in SHThreads :
        /\ shPc[t] = "wait" /\ HouseActive /\ ~houseLights
        /\ \A d \in Doors : TargetDoorState[d] = "CLOSED"
        /\ \A r \in Rooms : roomPc[r] = "start"

\* no other room has a run() thread
OnlyRoom(r) == \A q \in Rooms \ {r} : roomPc[q] = "idle"

\* C9: a room thread started by a demo ends: demoEvent(room) sets Demo and
\* HouseActive and starts the thread of the named room only, and while that
\* thread is the only room thread it sees Demo at the end of its iteration
\* and returns (checked under SpecRoom, whose fairness keeps every thread
\* scheduled and has the guest trip the sensors).
C9_DemoRoomTerminates ==
    \A r \in Rooms :
        (roomPc[r] # "idle" /\ Demo /\ OnlyRoom(r))
            ~> (roomPc[r] = "idle" \/ ~OnlyRoom(r))

\* C10: a room thread that has seen BreakCheck() return True, while
\* BreakCheck is still true, writes no pin, changes no door target and
\* dispatches no audio clip before it returns (checked under SpecRoom).
C10_NoActAfterBreak ==
    [][\A r \in Rooms :
          (sawBreak[r] /\ BreakCheck /\ RoomStep(r))
              => UNCHANGED <<pins, TargetDoorState, roomAudio>>]_vars

(* ------------------------- claims: audio manager ----------------------- *)
\* the playbacks that went through _play_pcm_nonblocking
Threaded(i) == ses[created[i]].threaded

\* C11 (restricted to worker-thread playback, for comparison): epochs of the
\* sessions built by _play_pcm_nonblocking strictly increase in creation
\* order and never exceed the counter
C11_ThreadedEpochsIncrease ==
    \A i, j \in 1..Len(created) :
        (i < j /\ Threaded(i) /\ Threaded(j))
            => /\ ses[created[i]].epoch # NoEpoch
               /\ ses[created[i]].epoch < ses[created[j]].epoch
               /\ ses[created[j]].epoch <= playEpoch

\* C11: every playback session carries an epoch, and of any two sessions the
\* one created first has the strictly smaller epoch (so no two share one)
C11_EpochMonotonic ==
    /\ \A i \in 1..Len(created) : ses[created[i]].epoch # NoEpoch
    /\ \A i, j \in 1..Len(created) :
           i < j => ses[created[i]].epoch < ses[created[j]].epoch

\* C11: the epoch counter never decreases
C11_CounterNeverDecreases == [][playEpoch' >= playEpoch]_vars

\* two worker-thread sessions exist, created one after the other
C11_Witness ==
    /\ Len(created) = 2
    /\ Threaded(1) /\ Threaded(2)

\* C12 (restricted to worker-thread playback, for comparison): a worker
\* that was playing when stop_all_audio took its snapshot and honors
\* shutdown ends at its next pass of the loop
C12_ThreadedStopAtNextBlock ==
    [][\A s \in Sessions :
          (ses[s].stopAsked /\ ses[s].honor_shutdown /\ ses[s].threaded
             /\ play_block(s)) => ses'[s].pc = "done"]_vars

\* C12: a playback that was playing when stop_all_audio took its snapshot
\* and honors shutdown, threaded or blocking, looping or not, writes no
\* further block once the stop has been signalled: its next pass of the
\* loop ends it
C12_StopAtNextBlock ==
    [][\A s \in Sessions :
          (ses[s].stopAsked /\ ses[s].honor_shutdown /\ stopPc # "set"
             /\ play_block(s)) => ses'[s].pc = "done"]_vars

\* C13: a worker-thread session whose epoch is greater than the cutoff of
\* the latest stop_all_audio call is never ended by a stop request
C13_LaterSessionNotStopped ==
    [][\A s \in Sessions :
          (ses[s].threaded /\ play_block(s) /\ ses'[s].why = "stop")
              => ses[s].epoch <= cutoffEpoch]_vars

\* C14: a text-to-speech session runs with both honor flags false on a
\* worker thread, and when it has ended it was either refused by the device
\* or wrote its whole source: never ended by stop_all_audio or BreakCheck
C14_TtsImmune ==
    \A s \in Sessions :
        (ses[s].pc # "none" /\ ses[s].kind = "tts")
            => /\ ~ses[s].honor_shutdown
               /\ ~ses[s].honor_breakcheck
               /\ ses[s].threaded
               /\ ses[s].pc = "done" => ses[s].why \in {"src", "openfail"}
               /\ ses[s].why = "src" => ses[s].pos = SrcBlocks

\* a text-to-speech session was playing when stop_all_audio took its
\* snapshot, and went on to the end of its source
C14_Witness ==
    \E s \in Sessions :
        /\ ses[s].kind = "tts"
        /\ ses[s].stopAsked
        /\ ses[s].pc = "done"
        /\ ses[s].why = "src"

\* C15: every call of stop_all_audio returns, whether or not the sessions it
\* waits for ever report done; its first step sets the cutoff to the current
\* value of the epoch counter, and at its return the stop event is clear
C15_StopAllAudioReturns ==
    /\ (stopPc # "idle") ~> (stopPc = "idle")
    /\ [][stop_snapshot => cutoffEpoch' = playEpoch]_vars
    /\ [][(stopPc # "idle" /\ stopPc' = "idle") => ~stopEvent']_vars

\* stop_all_audio gave up waiting: its deadline passed while a session was
\* still registered as active
C15_Witness ==
    /\ stopPc = "clear"
    /\ activeSessions # {}
    /\ cutoffEpoch > 0

\* C16: when every stream-open strategy failed for a playback, the call of
\* the playback API raised to its caller, and the session is not registered
\* in the active-sessions list
C16_OpenFailureReported ==
    \A s \in Sessions :
        ses[s].why = "openfail" => ses[s].raised /\ s \notin activeSessions

(* ------------------------ claims: channel routing ---------------------- *)
\* the frame written for a mono target has the sample times the gain in the
\* target's column and zero in every other column
MonoFrameOk ==
    \A c \in Channels(route.have_channels) :
        route.out[c] = IF c = route.idx THEN route.sample * route.gain ELSE 0

\* C17 (devices other than two-channel ones, for comparison)
C17_MonoRoutingExceptStereoDevice ==
    (route.pc = "written" /\ route.mode = "one" /\ route.have_channels # 2)
        => MonoFrameOk

\* C17: for a mono target with index k on a device with C channels, every
\* C >= 1 and k < C, each output frame carries src*gain in column k and
\* zero in every other column
C17_MonoRouting ==
    (route.pc = "written" /\ route.mode = "one") => MonoFrameOk

(* ------------------------- claims: sensor monitor ---------------------- *)
\* the newest sample the last obstructed call kept is above its clear_mm
Released ==
    LET q == hist[obs.sid].q
    IN q # <<>> /\ q[Len(q)].d > obs.clear_mm

C18_WitnessNoSample ==
    obs.called /\ obs.ret /\ hist[obs.sid].q = <<>>

\* a record for sid exists and was received at most max_age_ms ago
Fresh(sid, max_age_ms) ==
    /\ shared[sid] # NoRec
    /\ max_age_ms = NoLimit \/ (now - shared[sid].t_host_ms) <= max_age_ms

\* the stored dist_mm is negative, missing or unparseable
NoDistance(val) == val.tag # "num" \/ val.tenths < 0

\* C19 (first half, for comparison): get_value(id, "dist_mm") on a fresh
\* record never returns a negative value, and FAR_DISTANCE_MM stays >= 1
C19_NeverNegative ==
    [][(get_value_call /\ gv'.key = "dist_mm" /\ Fresh(gv'.sid, gv'.max_age_ms))
          => (gv'.value.tag = "num" /\ gv'.value.tenths >= 0 /\ farMm >= 1)]_vars

\* C19: get_value(id, "dist_mm") on a fresh record never returns a negative
\* value, and a negative, missing or unparseable stored dist_mm is returned
\* as the FAR constant, which is never below 1
C19_FarMapping ==
    [][(get_value_call /\ gv'.key = "dist_mm" /\ Fresh(gv'.sid, gv'.max_age_ms))
          => /\ gv'.value.tag = "num" /\ gv'.value.tenths >= 0
             /\ farMm >= 1
             /\ NoDistance(shared[gv'.sid].dist_mm) => gv'.value = Num(10 * farMm)]_vars

\* what the record holds under the key asked for, `default` when it holds
\* nothing
Stored(sid, key) ==
    IF ValOf(shared[sid], key) = Absent THEN Default ELSE ValOf(shared[sid], key)

HistoryGood(q, t, window_ms) ==
    /\ \A i \in 1..Len(q) : q[i].t >= t - window_ms
    /\ \A i \in 1..(Len(q) - 1) : q[i].t # q[i + 1].t
    /\ Len(q) <= HIST_MAXLEN

\* with one thread calling at a time the history is as described
HistoryEvictionOneThread ==
    [][\A sid \in SensorIds, block_mm \in BlockInputs, clear_mm \in ClearInputs,
          window_ms \in WindowInputs, min_consecutive \in MinConsecInputs :
          obstructed(sid, block_mm, clear_mm, window_ms, min_consecutive)
              => HistoryGood(hist'[sid].q, now, window_ms)]_vars

\* C21: after any call of get_distance_filtered or obstructed for a sensor
\* with window W made at host time t, the sensor's history holds no sample
\* older than t - W, no two consecutive samples with the same t_host_ms, and
\* at most 256 samples
C21_HistoryEviction ==
    [][\A c \in Callers :
          hu_evict(c) => HistoryGood(hist'[hu[c].sid].q, hu[c].now0,
                                     hu[c].window_ms)]_vars


(* -------------------------- claims: missing sensor --------------------- *)
\* no line carrying this id has been received
Missing(sid) == shared[sid] = NoRec

\* C22: for a sensor id that has no record, get returns nothing, get_value
\* returns the caller's default, get_distance_filtered and get_button_value
\* return nothing, and obstructed returns false (a sensor without a record
\* has no samples, so it is never latched); every call returns a value (none
\* ends in an exception). A record once written is never removed, so a
\* sensor that is missing now was missing when the call was made.
C22_MissingSensor ==
    /\ (api.fn # "none" /\ Missing(api.sid))
          => api.ret = (IF api.fn = "get" THEN NoRec ELSE Absent)
    /\ (gv.called /\ Missing(gv.sid)) => gv.value = Default
    /\ (obs.called /\ Missing(obs.sid)) => (~obs.ret /\ ~hist[obs.sid].last)

\* the button has not reported while the distance sensor has, and
\* get_button_value was asked for the button
C22_Witness ==
    /\ Missing("BTN1") /\ ~TableEmpty
    /\ api.fn = "get_button_value" /\ api.sid = "BTN1" /\ api.ret = Absent


(* --------------------------- claims: button edges ---------------------- *)
\* C23: every inbound button event both appends one edge record to the
\* button queue, in arrival order, and replaces the shared-table record of
\* its id: no edge reaches the table without being queued for button_pop
C23_ButtonEdgeQueued ==
    [][(btnLines' # btnLines)
          => /\ shared'["BTN1"].seq = btnLines'
             /\ btnq' = Append(btnq, [id |-> "BTN1", btn |-> 1,
                                      pressed |-> shared'["BTN1"].pressed = Bool(TRUE),
                                      seq |-> btnLines', t_host_ms |-> now])]_vars

\* for comparison: what button_pop delivers is in arrival order
ButtonPopInOrder ==
    [][(button_pop /\ bp.called /\ bp.ret # NoEdge /\ bp'.ret # NoEdge)
          => bp'.ret.seq > bp.ret.seq]_vars


(* ----------------------------- claims: reader -------------------------- *)
\* the record the reader builds from a line handled at host time t
RecordOf(line, t) ==
    [t_host_ms |-> t, seq |-> IntOf(line.seq),
     dist_mm |-> IF line.type = "button" THEN Absent ELSE LineDist,
     angle |-> Absent,
     btn |-> IF line.type = "button" THEN Num(10) ELSE Absent,
     pressed |-> IF line.type = "button" THEN Bool(TRUE) ELSE Absent]

\* a line that is JSON, has an id, and whose sequence number is a number or
\* is left out
WellFormed(line) ==
    line.json = "ok" /\ line.id # "" /\ line.seq.tag \in {"num", "absent"}

\* the reader has handled a line
LineHandled == <<lastLine, lastAt>>' # <<lastLine, lastAt>>

C25_NoRaiseIntoSupervisor == supPc # "raised"

\* for comparison: without the boards boot goes on and reaches ONLINE
BootWithoutBoards ==
    ~(systemState = "ONLINE" /\ ~M1_available /\ ~M2_available /\ serOpen)


(* --------------------------- claims: room tags ------------------------- *)
\* C26: every room task sets its room state tag to INACTIVE on every exit
\* path: normal loop end, a BreakCheck-triggered return from inside a wait,
\* and demo completion
C26_InactiveOnExit ==
    [][\A r \in TaggedRooms :
          (roomPc[r] # "idle" /\ roomPc'[r] = "idle") => roomState'[r] = "INACTIVE"]_vars

\* for comparison: the rooms that keep a tag leave it ACTIVE only by the
\* returns inside the loop (the end of the loop sets INACTIVE)
TagLeftActive ==
    \E r \in TaggedRooms :
        roomPc[r] = "idle" /\ roomState[r] = "ACTIVE" /\ ~sawBreak[r]
TagSetAtLoopEnd ==
    \E r \in TaggedRooms : roomPc[r] = "idle" /\ roomState[r] = "INACTIVE"


\* a step in which a room thread, or treasureRoom's helper thread, ends by an
\* exception
RaiseStep ==
    \/ roomFailed' # roomFailed
    \/ helperPc # "raised" /\ helperPc' = "raised"

\* the threads that are alive can take their next step
OthersKeepRunning ==
    /\ \A r \in Rooms : roomPc[r] # "idle" => ENABLED RoomStep(r)
    /\ supPc = "watch" => ENABLED sup_watch_online

C28_FlickersCompose ==
    [][\A v \in Workers :
          (fl[v].pc = "none" /\ fl'[v].pc = "run" /\ ~BreakCheck) =>
              \A w \in Workers \ {v} : fl[w].pc = "run" => fl'[w] = fl[w]]_vars

\* for comparison: a flicker that ended before its duration although the
\* show went on, and two flickers writing the one level the dimmer has
FlickerCutShort ==
    \E w \in Workers : fl[w].pc = "done" /\ fl[w].left > 0 /\ ~BreakCheck
FlickerRunsFull ==
    \E w \in Workers : fl[w].pc = "done" /\ fl[w].left = 0 /\ ~fl[w].stop


\* a step of door d's thread out of position pc
DoorLeaves(d, pc) == doorPc[d] = pc /\ doorPc'[d] # pc

\* C29: with target CLOSED, if the idle-profile obstruction predicate is true
\* before the close is commanded, the door task sets observed state CLOPEN,
\* asserts open, waits the retry delay and checks again; it does not command
\* the solenoid closed until a pre-close check finds no obstruction
C29_PreCloseCheck ==
    [][\A d \in Doors :
          /\ (DoorLeaves(d, "closed_loop") /\ doorPc'[d] = "pre_close_delay") =>
                 /\ DoorState'[d] = "CLOPEN"
                 /\ pins'[DOOR_SOLENOID_PINS[d]] = 1
          /\ DoorLeaves(d, "pre_close_delay") =>
                 /\ doorPc'[d] = "closed_loop"
                 /\ pins'[DOOR_SOLENOID_PINS[d]] = 1]_vars

\* for comparison, what the door task does on an obstruction before the
\* close: it asserts open and, after the delay, commands the close at once
PreCloseOpensThenCloses ==
    [][\A d \in Doors :
          /\ (DoorLeaves(d, "closed_loop") /\ doorPc'[d] = "pre_close_delay") =>
                 /\ UNCHANGED DoorState
                 /\ pins'[DOOR_SOLENOID_PINS[d]] = 1
          /\ DoorLeaves(d, "pre_close_delay") =>
                 /\ doorPc'[d] = "monitor_first"
                 /\ pins'[DOOR_SOLENOID_PINS[d]] = 0]_vars

\* C30: whenever the moving-profile obstruction predicate is true during the
\* close monitor window, the door task sets observed state CLOPEN, commands
\* the solenoid open, waits the retry delay, commands close again, waits the
\* self-pass interval and restarts the monitor window and clear timer from
\* zero; this repeats for every obstruction, with no bound on the retries
C30_ObstructionRetry ==
    [][\A d \in Doors :
          /\ (doorPc[d] \in {"monitor_first", "monitor"} /\ doorPc'[d] = "retry_delay") =>
                 /\ DoorState'[d] = "CLOPEN"
                 /\ pins'[DOOR_SOLENOID_PINS[d]] = 1
          /\ DoorLeaves(d, "retry_delay") =>
                 /\ doorPc'[d] = "monitor_first"
                 /\ pins'[DOOR_SOLENOID_PINS[d]] = 0]_vars

\* for comparison, the retry without the observed state: the solenoid is
\* opened, then closed again, and the window restarts
RetryReopensThenCloses ==
    [][\A d \in Doors :
          /\ (doorPc[d] \in {"monitor_first", "monitor"} /\ doorPc'[d] = "retry_delay") =>
                 /\ UNCHANGED DoorState
                 /\ pins'[DOOR_SOLENOID_PINS[d]] = 1
          /\ DoorLeaves(d, "retry_delay") =>
                 /\ doorPc'[d] = "monitor_first"
                 /\ pins'[DOOR_SOLENOID_PINS[d]] = 0]_vars


\* a step of door d's thread
DoorActs(d) == doorPc[d] \notin {"none", "done"} /\ doorPc'[d] # doorPc[d]

\* C31: observed DoorState[id] becomes CLOSED only after a close command
\* followed by clear_hold_s of clear readings or a full monitor window; it is
\* never set to CLOSED because the close attempt was cut short, in particular
\* not when SystemState has left ONLINE
C31_ClosedOnlyWhenClosed ==
    [][\A d \in Doors :
          (DoorState[d] # "CLOSED" /\ DoorState'[d] = "CLOSED") =>
              /\ doorPc[d] = "monitor"
              /\ pins[DOOR_SOLENOID_PINS[d]] = 0
              /\ systemState = "ONLINE"]_vars

\* for comparison: CLOSED is declared by the monitor loop only, after the
\* close command
ClosedByMonitorOnly ==
    [][\A d \in Doors :
          (DoorState[d] # "CLOSED" /\ DoorState'[d] = "CLOSED") =>
              /\ doorPc[d] \in {"monitor_first", "monitor"}
              /\ pins[DOOR_SOLENOID_PINS[d]] = 0]_vars

\* C34: TargetDoorState[id] is written only by external code; a running door
\* task never changes a target, so an operator OPEN command issued while a
\* door is in CLOPEN is never overwritten by the door task
C34_TaskLeavesTarget ==
    [][\A d \in Doors : DoorActs(d) /\ doorPc'[d] # "start" =>
                            TargetDoorState'[d] = TargetDoorState[d]]_vars

\* for comparison: the one position where the door task writes the target,
\* and an operator's OPEN overwritten there
TargetWrittenInClopenOnly ==
    [][\A d \in Doors :
          (DoorActs(d) /\ doorPc'[d] # "start" /\ TargetDoorState'[d] # TargetDoorState[d]) =>
              doorPc[d] = "clopen_hold" /\ TargetDoorState'[d] = "CLOSED"]_vars

\* C35: after SystemState has left ONLINE, no door task writes a close
\* command (value 0) to its solenoid, including when the change happens while
\* the task is sleeping in an obstruction retry delay or pre-close delay
C35_NoCloseAfterOnline ==
    [][\A d \in Doors :
          (DoorActs(d) /\ systemState # "ONLINE") =>
              ~(pins[DOOR_SOLENOID_PINS[d]] = 1 /\ pins'[DOOR_SOLENOID_PINS[d]] = 0)]_vars

\* for comparison: outside the two delays no close is commanded after ONLINE
NoCloseAfterOnlineButDelays ==
    [][\A d \in Doors :
          (DoorActs(d) /\ systemState # "ONLINE"
                       /\ doorPc[d] \notin {"retry_delay", "pre_close_delay"}) =>
              ~(pins[DOOR_SOLENOID_PINS[d]] = 1 /\ pins'[DOOR_SOLENOID_PINS[d]] = 0)]_vars


\* C33: if a door's target is changed from CLOSED to OPEN while a close
\* attempt is in progress and SystemState stays ONLINE, the door task
\* eventually commands the solenoid open and sets observed state OPEN, even
\* when the sensor keeps reporting an obstruction for the whole attempt
InCloseAttempt(d) == doorPc[d] \in {"monitor_first", "monitor", "retry_delay"}
C33_TargetChangeOpens ==
    \A d \in Doors :
        (InCloseAttempt(d) /\ TargetDoorState[d] = "OPEN")
            ~> \/ ~InCloseAttempt(d) /\ (pins[DOOR_SOLENOID_PINS[d]] = 1 /\ DoorState[d] = "OPEN")
               \/ systemState # "ONLINE"
               \/ TargetDoorState[d] # "OPEN"

\* for comparison: the attempt does end, and the door opens, when the sensor
\* stops reporting the obstruction (no retry is pending for ever)
C33_OpensOnceClear ==
    \A d \in Doors :
        (InCloseAttempt(d) /\ TargetDoorState[d] = "OPEN")
            ~> \/ ~InCloseAttempt(d) /\ (pins[DOOR_SOLENOID_PINS[d]] = 1 /\ DoorState[d] = "OPEN")
               \/ systemState # "ONLINE"
               \/ TargetDoorState[d] # "OPEN"
               \/ doorPc[d] = "retry_delay"


\* the supervisor's spawn_doors step
SpawnStep == supPc = "spawn" /\ supPc' = "set_online"

\* C32: for each door at most one door task is active at any time, including
\* across shutdown/reboot cycles in which the supervisor calls spawn_doors
\* again while a door task of the previous cycle may not yet have observed
\* the shutdown (doorPc follows the newest task of a door, so a second task
\* comes to life exactly when spawn_doors runs while the door's task lives)
C32_OneTaskPerDoor ==
    [][SpawnStep => \A d \in Doors : ~DoorAlive(d)]_vars

\* for comparison: only in the detector's soft and emergency branches does a
\* countdown of 5 s, longer than any sleep of a door task, precede REBOOT;
\* this says that no respawn after the branch without countdown meets a door
\* task sleeping in its retry delay, and it does not hold either
NoSleeperAtQuickRespawn ==
    [][(SpawnStep /\ detBranch = "U") =>
           \A d \in Doors : doorPc[d] # "retry_delay"]_vars


\* C36: concurrent start requests launch the show at most once: at most one
\* StartHouse invocation passes the HouseActive/ONLINE check per run, so each
\* room task is started at most once per run
C36_SingleLaunch ==
    \A t, u \in SHThreads : (shPc[t] = "launch" /\ shPc[u] = "launch") => t = u

\* for comparison: the second launch, with no demo about
LaunchedTwice ==
    /\ demoCount = 0
    /\ \A t \in SHThreads : shPc[t] = "wait"
    /\ \A r \in Rooms : extraTasks[r] = 1

\* C38: when a demo of any room has finished (its room task has exited after
\* its one iteration, with SystemState still ONLINE), both Demo and HouseActive
\* are false, so that a following start_house or demo request is accepted
C38_DemoEndClearsFlags ==
    [][\A r \in Rooms :
          (roomPc[r] \in {"check", "end"} /\ roomPc'[r] = "idle"
              /\ Demo /\ systemState = "ONLINE" /\ systemState' = "ONLINE") =>
                 ~Demo' /\ ~HouseActive']_vars

\* for comparison: Demo is cleared by every room that ends its demo, and
\* HouseActive by the gangway and the cargo hold
DemoEndClearsDemo ==
    [][\A r \in Rooms :
          (roomPc[r] \in {"check", "end"} /\ roomPc'[r] = "idle"
              /\ Demo /\ systemState = "ONLINE" /\ systemState' = "ONLINE") =>
                 ~Demo' /\ (r \in {"gangway", "cargoHold"} => ~HouseActive')]_vars

\* C39: at most one instance of each room task is active at any time, for
\* every interleaving of stop and start requests
C39_OneInstancePerRoom == \A r \in Rooms : extraTasks[r] = 0


\* C37: supervisor liveness: after any shutdown request SystemState eventually
\* becomes REBOOT and then ONLINE again, whatever further mode requests
\* arrive during the shutdown routine, the countdown or while the state is
\* REBOOT
C37_SupervisorLiveness ==
    (systemState \in {"SoftShutdown", "EmergencyShutoff"}) ~> (systemState = "ONLINE")

\* for comparison: the supervisor either comes back ONLINE again and again or
\* ends waiting for REBOOT with the detector of its cycle finished
StuckOnlyWaitingForReboot ==
    \/ []<>(systemState = "ONLINE")
    \/ <>[](/\ supPc = "wait_reboot"
            /\ detPc = "done"
            /\ systemState \in {"SoftShutdown", "EmergencyShutoff"})


(* ------------------------ claims: reconnect backoff -------------------- *)
\* the delay after n failures in a row: BACKOFF_START_S doubled n-1 times,
\* capped at BACKOFF_MAX_S
DelayAfter(n) == Min(BACKOFF_START_S * 2^(n - 1), BACKOFF_MAX_S)

\* C40: the delay slept before a reconnect attempt starts at BACKOFF_START_S,
\* doubles after each failure, never exceeds BACKOFF_MAX_S, and returns to
\* BACKOFF_START_S after a successful connection: the delay after a failure
\* depends only on the number of consecutive failures since the last
\* successful open
C40_BackoffPerFailureRun ==
    (monPc = "open" /\ consecFails > 0) => slept = DelayAfter(consecFails)

\* for comparison: the delay starts at BACKOFF_START_S, doubles after each
\* failure and never exceeds BACKOFF_MAX_S, counting every failure since the
\* process started
BackoffCountsAllFailures ==
    /\ backoff \in BACKOFF_START_S..BACKOFF_MAX_S
    /\ slept <= BACKOFF_MAX_S
    /\ totalFails > 0 => slept = DelayAfter(totalFails)
    /\ backoff = DelayAfter(totalFails + 1)

\* a failure that follows a successful open
FailedAfterConnect == monPc = "open" /\ consecFails = 1 /\ totalFails > 1

====
